---- MODULE Spec2Model ----
(***************************************************************************)
(* A model of the spacetime crawler: the durable frontier                  *)
(* (src/crawler/frontier.py), URL canonicalisation (src/utils/__init__.py), *)
(* the admission filter (src/scraper.py) and the worker pool driving them. *)
(*                                                                         *)
(* A URL string is represented by the record of its components as          *)
(* urllib.parse.urlparse splits it (scheme, username, password, hostname,  *)
(* port, path, query, fragment); letter case is kept in scheme and host so *)
(* that canonicalisation has something to do.  A canonical URL string is   *)
(* represented by the parse of urlunparse's output.                        *)
(***************************************************************************)
EXTENDS Integers, Sequences, FiniteSets, TLC

(***************************************************************************)
(* Bounds of the model.                                                    *)
(***************************************************************************)
\* number of worker threads (config.threads_count)
NumWorkers == 2
\* number of times the process is launched in one behaviour
MaxRuns == 2

(***************************************************************************)
(* URLs.                                                                   *)
(***************************************************************************)
\* urlparse(...).port when the netloc carries no port (None)
NoPort == -1

Url(scheme, host, port, path, frag) ==
    [scheme |-> scheme, user |-> "", pass |-> "", host |-> host,
     port |-> port, path |-> path, query |-> "", frag |-> frag]

\* the empty string: every component empty
EmptyUrl == Url("", "", NoPort, "", "")

U_root  == Url("https", "ics.uci.edu", NoPort, "/", "")
U_rootV == Url("HTTPS", "ICS.UCI.EDU", 443, "/", "top")
U_a     == Url("https", "ics.uci.edu", NoPort, "/a", "")
U_aF    == Url("https", "ics.uci.edu", NoPort, "/a", "frag")
U_b     == Url("http", "www.cs.uci.edu", 80, "/b", "")
U_pdf   == Url("https", "ics.uci.edu", NoPort, "/file.pdf", "")
U_ext   == Url("https", "example.com", NoPort, "/", "")

\* str.lower() on the strings of the model
Lower(s) ==
    CASE s = "HTTPS" -> "https"
      [] s = "HTTP" -> "http"
      [] s = "ICS.UCI.EDU" -> "ics.uci.edu"
      [] s = "Alpha" -> "alpha"
      [] s = "::A" -> "::a"
      [] OTHER -> s

\* the domain suffixes d of a host h with h == d or h.endswith("." + d)
HostSuffixes(h) ==
    CASE h = "ics.uci.edu" -> {"ics.uci.edu", "uci.edu", "edu"}
      [] h = "www.cs.uci.edu" -> {"www.cs.uci.edu", "cs.uci.edu", "uci.edu", "edu"}
      [] h = "example.com" -> {"example.com", "com"}
      [] OTHER -> {h}

\* the non-empty segments of a path, lowercased
PathSegs(p) ==
    CASE p = "/a" -> <<"a">>
      [] p = "/b" -> <<"b">>
      [] p = "/file.pdf" -> <<"file.pdf">>
      [] OTHER -> <<>>

\* the extension after the last "." of the lowercased path ("" when none)
PathExt(p) ==
    CASE p = "/file.pdf" -> "pdf"
      [] OTHER -> ""

\* len(s) for the strings of the model
StrLen(s) ==
    CASE s = "" -> 0
      [] s = "/" -> 1
      [] s = "/a" -> 2
      [] s = "/b" -> 2
      [] s = "/file.pdf" -> 9
      [] s = "http" -> 4
      [] s = "HTTP" -> 4
      [] s = "https" -> 5
      [] s = "HTTPS" -> 5
      [] s = "ics.uci.edu" -> 11
      [] s = "ICS.UCI.EDU" -> 11
      [] s = "example.com" -> 11
      [] s = "www.cs.uci.edu" -> 14
      [] OTHER -> 1

\* number of decimal digits of a port
PortLen(p) == IF p < 10 THEN 1 ELSE IF p < 100 THEN 2 ELSE IF p < 1000 THEN 3
              ELSE IF p < 10000 THEN 4 ELSE 5

\* len(url) of the string a URL record stands for
UrlLen(u) ==
    (IF u.scheme # "" THEN StrLen(u.scheme) + 1 ELSE 0)
    + (IF u.host # "" THEN 2 + StrLen(u.host) ELSE 0)
    + (IF u.port # NoPort THEN 1 + PortLen(u.port) ELSE 0)
    + StrLen(u.path)
    + (IF u.query # "" THEN 1 + StrLen(u.query) ELSE 0)
    + (IF u.frag # "" THEN 1 + StrLen(u.frag) ELSE 0)

urldefrag(u) == [u EXCEPT !.frag = ""]

\* a part of the URL that is written and empty: the port of "http://h:/",
\* the password of "http://u:@h/", the username of "http://:pw@h/", the
\* query of "http://h/a?"; urlparse gives None for the port and "" for the
\* others, where a part not written gives None or ""
EmptyPort == -2
Blank == "blank"

\* urlparse(url).hostname before its lowercasing: an IPv6 literal without
\* its brackets
Unbracketed(h) ==
    CASE h = "[::A]" -> "::A"
      [] h = "[::a]" -> "::a"
      [] OTHER -> h

\* ":" in hostname, and f"[{hostname}]"
HasColon(h) == h \in {"::a", "::A"}
Bracketed(h) ==
    CASE h = "::A" -> "[::A]"
      [] h = "::a" -> "[::a]"
      [] OTHER -> h

\* normalize testing the port against the scheme as it is written
normalize_rawscheme(u) ==
    IF u = EmptyUrl THEN u
    ELSE LET hostname == Lower(Unbracketed(u.host))
             port == u.port
             is_default_port == \/ (u.scheme = "http" /\ port = 80)
                                \/ (u.scheme = "https" /\ port = 443)
             has_user == u.user \notin {"", Blank}
         IN  [scheme |-> Lower(u.scheme),
              user |-> IF has_user THEN u.user ELSE "",
              pass |-> IF has_user /\ u.pass \notin {"", Blank} THEN u.pass ELSE "",
              host |-> IF HasColon(hostname) THEN Bracketed(hostname) ELSE hostname,
              port |-> IF port \notin {NoPort, EmptyPort, 0} /\ ~is_default_port
                       THEN port ELSE NoPort,
              path |-> u.path,
              query |-> IF u.query = Blank THEN "" ELSE u.query,
              frag |-> ""]

\* utils.normalize: defragment, lowercase scheme and host, drop a default
\* port (and a port that is falsy, i.e. None or 0), keep the username if
\* it is not empty and with it the password if it is not empty, keep path
\* and query (urlunparse writes no "?" for an empty query); parsed is
\* urlparse(url), taken once.
normalize(u) ==
    LET unparse(parsed) ==
        IF parsed = EmptyUrl THEN parsed
        ELSE LET scheme == Lower(parsed.scheme)
                 hostname == Lower(Unbracketed(parsed.host))
                 port == parsed.port
                 is_default_port == \/ (scheme = "http" /\ port = 80)
                                    \/ (scheme = "https" /\ port = 443)
                 has_user == parsed.user \notin {"", Blank}
             IN  [scheme |-> scheme,
                  user |-> IF has_user THEN parsed.user ELSE "",
                  pass |-> IF has_user /\ parsed.pass \notin {"", Blank}
                           THEN parsed.pass ELSE "",
                  host |-> IF HasColon(hostname) THEN Bracketed(hostname) ELSE hostname,
                  port |-> IF port \notin {NoPort, EmptyPort, 0} /\ ~is_default_port
                           THEN port ELSE NoPort,
                  path |-> parsed.path,
                  query |-> IF parsed.query = Blank THEN "" ELSE parsed.query,
                  frag |-> ""]
    IN  CHOOSE url \in {unparse(parsed) : parsed \in {u}} : TRUE

\* hashlib.sha256(...).hexdigest(), taken to be injective
sha256(s) == <<"sha256", s>>

\* utils.get_urlhash
get_urlhash(u) == sha256(normalize(u))

(***************************************************************************)
(* The admission filter.                                                   *)
(***************************************************************************)
AllowedDomains == {"ics.uci.edu", "cs.uci.edu", "informatics.uci.edu", "stat.uci.edu"}

\* the extensions of the regular expression is_valid ends with
BadExtensions ==
    {"css", "js", "bmp", "gif", "jpg", "jpeg", "ico", "png", "tif", "tiff",
     "mid", "mp2", "mp3", "mp4", "wav", "avi", "mov", "mpeg", "ram", "m4v",
     "mkv", "ogg", "ogv", "pdf", "ps", "eps", "tex", "ppt", "pptx", "doc",
     "docx", "xls", "xlsx", "names", "data", "dat", "exe", "bz2", "tar",
     "msi", "bin", "7z", "psd", "dmg", "iso", "epub", "dll", "cnf", "tgz",
     "sha1", "thmx", "mso", "arff", "rtf", "jar", "csv", "rm", "smil", "wmv",
     "swf", "wma", "zip", "rar", "gz"}

MaxUrlLen == 300

MaxPathLen == 200
MaxPathSegs == 25
MaxSegRepeat == 5

SegCount(segs, s) == Cardinality({i \in 1..Len(segs) : segs[i] = s})

\* scraper.is_valid on a URL without a query string
is_valid(u) ==
    LET parsed == urldefrag(u)
        host == Lower(parsed.host)
        segs == PathSegs(parsed.path)
    IN  /\ Lower(parsed.scheme) \in {"http", "https"}
        /\ host # ""
        /\ HostSuffixes(host) \cap AllowedDomains # {}
        /\ UrlLen(parsed) <= MaxUrlLen
        /\ StrLen(parsed.path) <= MaxPathLen
        /\ Len(segs) <= MaxPathSegs
        /\ \A i \in 1..Len(segs) : SegCount(segs, segs[i]) <= MaxSegRepeat
        /\ PathExt(parsed.path) \notin BadExtensions


(***************************************************************************)
(* Configuration and the world.                                            *)
(***************************************************************************)
\* config.time_delay, in clock ticks
time_delay == 1

\* the web: the anchors of each page, resolved against the page's URL
Anchors(u) ==
    CASE u = normalize(U_root) -> {U_aF, U_rootV, U_ext}
      [] u = normalize(U_a) -> {U_b, U_pdf}
      [] u = normalize(U_b) -> {U_aF, U_root}
      [] u = normalize(U_ext) -> {U_b}
      [] OTHER -> {}

\* the seed lists (config.seed_urls) a behaviour is started with
SeedConfigs == { <<U_root, U_rootV>>, <<U_ext, U_b>> }

RawUrls == {U_root, U_rootV, U_a, U_aF, U_b, U_pdf, U_ext}
CanonUrls == {normalize(u) : u \in RawUrls}
Hashes == {get_urlhash(u) : u \in RawUrls}
Hosts == {u.host : u \in CanonUrls}

Workers == 1..NumWorkers

Max(a, b) == IF a >= b THEN a ELSE b
Min(a, b) == IF a <= b THEN a ELSE b

\* the save file of the URL store and the sidecars of its write-ahead log
SaveFiles == {"db", "wal", "shm"}

VARIABLES
    seed_urls,    \* config.seed_urls
    proc,         \* the process: "off", the constructor's steps, or "up"
    restart,      \* the restart argument of this launch
    had_file,     \* whether the save file existed when this launch began
    runs,         \* launches so far
    files,        \* which of the save file and its sidecars exist
    rows,         \* table urls: urlhash -> [url, completed]
    closed,       \* Frontier._closed
    in_progress,  \* Frontier._in_progress
    seen,         \* Frontier._seen_hashes
    pending,      \* Frontier.to_be_downloaded
    allowed_in,   \* host -> max(0, _domain_next_allowed_at[host] - now)
    wpc,          \* worker -> where it is in its loop
    wurl,         \* worker -> the URL get_tbd_url gave it
    wlinks,       \* worker -> links scraped and not yet added
    wsleep,       \* worker -> time left of its time.sleep(wait_s)
    wfail,        \* worker -> the exception its scrape raised, "" if it returned
    returned,     \* URL -> times get_tbd_url returned it in this run
    enqueued,     \* URLs appended to pending in this run
    grant_age,    \* host -> time since wait_for_politeness last granted it
    grant_gap     \* host -> time between its last two grants

disk == <<files, rows>>
memory == <<closed, in_progress, seen, pending, allowed_in>>
threads == <<wpc, wurl, wlinks, wsleep, wfail>>
history == <<returned, enqueued, grant_age, grant_gap>>
launch == <<seed_urls, proc, restart, had_file, runs>>

VARIABLES
    engine,       \* the Analytics instance's fields, as one record
    store,        \* analytics/: state.pkl, summary.json and their .tmp siblings
    aproc,        \* the process holding the Analytics instance: "off" or "up"
    lock,         \* the thread holding Analytics._lock, or NoThread
    saving,       \* the step _save_locked is at, "" when it is not running
    tpc,          \* scraping thread -> where extract_next_links is
    tpage,        \* scraping thread -> the page it is scraping
    tnew,         \* scraping thread -> is_new, what record_url returned
    tres,         \* scraping thread -> what its last scraper call returned
    scrapes       \* scraper calls begun so far

analysis == <<engine, store, aproc, lock, saving, tpc, tpage, tnew, tres, scrapes>>

VARIABLES
    dl,           \* the download call: where it is, its locals, what it returned
    rep,          \* the reporter: where it is, the report file, the exit status
    calc          \* the last call of a pure function: name, argument, result

vars == <<launch, disk, memory, threads, history, analysis, dl, rep, calc>>

NoRows == <<>>

\* INSERT OR IGNORE INTO urls(urlhash, url, completed) VALUES(h, u, 0)
InsertOrIgnore_done(table, h, u) ==
    IF h \in DOMAIN table THEN table
    ELSE table @@ (h :> [url |-> u, completed |-> 1])

InsertOrIgnore(table, h, u) ==
    IF h \in DOMAIN table THEN table
    ELSE table @@ (h :> [url |-> u, completed |-> 0])

\* UPDATE urls SET completed = 1 WHERE urlhash = h
UpdateCompleted(table, h) ==
    [k \in DOMAIN table |->
        IF k = h THEN [table[k] EXCEPT !.completed = 1] ELSE table[k]]

\* the frontier's state as one value; notified counts the notify() calls
Frontier ==
    [closed |-> closed, in_progress |-> in_progress, seen |-> seen,
     rows |-> rows, pending |-> pending, notified |-> 0]

\* add_url without its test of the seen set
add_url_unseen(F, url) ==
    LET u == normalize(urldefrag(url))
        urlhash == get_urlhash(u)
    IN  IF F.closed THEN F
        ELSE [F EXCEPT !.seen = @ \cup {urlhash},
                       !.rows = InsertOrIgnore(@, urlhash, u),
                       !.pending = Append(@, u),
                       !.notified = @ + 1]

\* add_url keyed by the hash of the URL as given, not of its canonical form
add_url_rawkey(F, url) ==
    LET u == normalize(urldefrag(url))
        urlhash == sha256(urldefrag(url))
    IN  IF F.closed THEN F
        ELSE IF urlhash \notin F.seen
        THEN [F EXCEPT !.seen = @ \cup {urlhash},
                       !.rows = InsertOrIgnore(@, urlhash, u),
                       !.pending = Append(@, u),
                       !.notified = @ + 1]
        ELSE F

\* add_url without its test of the closed flag
add_url_open(F, url) ==
    LET u == normalize(urldefrag(url))
        urlhash == get_urlhash(u)
    IN  IF urlhash \notin F.seen
        THEN [F EXCEPT !.seen = @ \cup {urlhash},
                       !.rows = InsertOrIgnore(@, urlhash, u),
                       !.pending = Append(@, u),
                       !.notified = @ + 1]
        ELSE F

\* add_url without its INSERT
add_url_noinsert(F, url) ==
    LET u == normalize(urldefrag(url))
        urlhash == get_urlhash(u)
    IN  IF F.closed THEN F
        ELSE IF urlhash \notin F.seen
        THEN [F EXCEPT !.seen = @ \cup {urlhash},
                       !.pending = Append(@, u),
                       !.notified = @ + 1]
        ELSE F

\* Frontier.add_url on a frontier value
add_url(F, url) ==
    LET u == normalize(urldefrag(url))
        urlhash == get_urlhash(u)
    IN  IF F.closed THEN F
        ELSE IF urlhash \notin F.seen
        THEN [F EXCEPT !.seen = @ \cup {urlhash},
                       !.rows = InsertOrIgnore(@, urlhash, u),
                       !.pending = Append(@, u),
                       !.notified = @ + 1]
        ELSE F

\* for url in self.config.seed_urls: self.add_url(url)
RECURSIVE add_seeds(_, _)
add_seeds(F, seeds) ==
    IF seeds = <<>> THEN F
    ELSE add_seeds(add_url(F, Head(seeds)), Tail(seeds))

\* the worker's calls of add_url, one for each link scraper returned
RECURSIVE add_links(_, _)
add_links(F, links) ==
    IF links = {} THEN F
    ELSE LET l == CHOOSE x \in links : TRUE
         IN  add_links(add_url(F, l), links \ {l})

\* the frontier a fresh start builds from the seeds
SeedFrontier(seeds) ==
    add_seeds([closed |-> FALSE, in_progress |-> 0, seen |-> {}, rows |-> NoRows,
               pending |-> <<>>, notified |-> 0], seeds)

\* the URLs in the frontier's table once the links are added, seeds apart
additional_urls(seeds, links) ==
    LET F == add_links(SeedFrontier(seeds), links)
        S == SeedFrontier(seeds)
    IN  {F.rows[h].url : h \in DOMAIN F.rows \ DOMAIN S.rows}

\* mark_url_complete closing as soon as nothing is pending, whatever is in
\* progress
mark_url_complete_pendingonly(F, url) ==
    LET urlhash == get_urlhash(urldefrag(url))
        left == Max(0, F.in_progress - 1)
    IN  [F EXCEPT !.rows = IF urlhash \in F.seen
                           THEN UpdateCompleted(@, urlhash) ELSE @,
                  !.in_progress = left,
                  !.closed = IF F.pending = <<>> THEN TRUE ELSE @]

\* mark_url_complete closing as soon as nothing is in progress
mark_url_complete_early(F, url) ==
    LET urlhash == get_urlhash(urldefrag(url))
        left == Max(0, F.in_progress - 1)
    IN  [F EXCEPT !.rows = IF urlhash \in F.seen
                           THEN UpdateCompleted(@, urlhash) ELSE @,
                  !.in_progress = left,
                  !.closed = IF left = 0 THEN TRUE ELSE @]

\* mark_url_complete without its decrement of in_progress
mark_url_complete_nodec(F, url) ==
    LET urlhash == get_urlhash(urldefrag(url))
        left == F.in_progress
    IN  [F EXCEPT !.rows = IF urlhash \in F.seen
                           THEN UpdateCompleted(@, urlhash) ELSE @,
                  !.in_progress = left,
                  !.closed = IF left = 0 /\ F.pending = <<>> THEN TRUE ELSE @]

\* mark_url_complete without its UPDATE
mark_url_complete_noupdate(F, url) ==
    LET left == Max(0, F.in_progress - 1)
    IN  [F EXCEPT !.in_progress = left,
                  !.closed = IF left = 0 /\ F.pending = <<>> THEN TRUE ELSE @]

\* Frontier.mark_url_complete on a frontier value (it ends with notify_all)
mark_url_complete(F, url) ==
    LET urlhash == get_urlhash(urldefrag(url))
        left == Max(0, F.in_progress - 1)
    IN  [F EXCEPT !.rows = IF urlhash \in F.seen
                           THEN UpdateCompleted(@, urlhash) ELSE @,
                  !.in_progress = left,
                  !.closed = IF left = 0 /\ F.pending = <<>> THEN TRUE ELSE @]

\* wait_for_politeness granting without moving the host's next allowed time
politeness_noreserve(allowed, domain) ==
    IF allowed[domain] = 0
    THEN [granted |-> TRUE, allowed |-> allowed, wait_s |-> 0]
    ELSE [granted |-> FALSE, allowed |-> allowed, wait_s |-> allowed[domain]]

\* one pass of wait_for_politeness's loop for a host: with now >= allowed_at
\* the host's next allowed time becomes now + time_delay and the call
\* returns, otherwise the caller sleeps allowed_at - now
politeness(allowed, domain) ==
    IF allowed[domain] = 0
    THEN [granted |-> TRUE,
          allowed |-> [allowed EXCEPT ![domain] = time_delay],
          wait_s |-> 0]
    ELSE [granted |-> FALSE, allowed |-> allowed, wait_s |-> allowed[domain]]

\* the sequences listing every element of S once
Listings(S) ==
    {q \in [1..Cardinality(S) -> S] : \A i, j \in 1..Cardinality(S) : q[i] = q[j] => i = j}

\* _parse_save_file without its test of completed
TbdRows_completed(table) ==
    {h \in DOMAIN table : is_valid(table[h].url)}

\* the rows _parse_save_file appends to to_be_downloaded
TbdRows(table) ==
    {h \in DOMAIN table : table[h].completed = 0 /\ is_valid(table[h].url)}


\* what download hands to scraper: a status-200 page, the status-0 response
\* download makes up when its attempts are exhausted, a status-200 page with
\* an href such as "http://[" that urljoin rejects with ValueError
Responses == {"page", "status0", "bad_href"}

\* extract_next_links raises on the href, and scraper with it
scraper_raises(resp) == resp = "bad_href"

\* the exception scraper leaves the worker with, "" when it returns
Failure(resp) == IF scraper_raises(resp) THEN "ValueError" ELSE ""

\* scraper(url, resp): nothing unless the status is 200, else the
\* defragmented anchors of the page that pass is_valid
scraper(url, resp) ==
    IF resp # "page" THEN {}
    ELSE {l \in {urldefrag(x) : x \in Anchors(url)} : is_valid(l)}

(***************************************************************************)
(* The condition variable.                                                 *)
(***************************************************************************)
Waiters(pcs) == {v \in Workers : pcs[v] = "waiting"}

\* the outcomes of n calls of Condition.notify(): one waiter wakes, if any
Notify(pcs, n) ==
    IF n = 0 \/ Waiters(pcs) = {} THEN {pcs}
    ELSE {[pcs EXCEPT ![v] = "get"] : v \in Waiters(pcs)}

\* notify_all() left out: no waiter wakes
NotifyAll_none(pcs) == pcs

\* Condition.notify_all(): every waiter wakes and re-enters the loop
NotifyAll(pcs) == [v \in Workers |-> IF pcs[v] = "waiting" THEN "get" ELSE pcs[v]]

(***************************************************************************)
(* The worker loop: get_tbd_url, wait_for_politeness, fetch and scrape,    *)
(* add_url for every link, mark_url_complete.                              *)
(***************************************************************************)
\* skipping mark_url_complete when scrape fails
AfterFailure_skip == "get"

\* a failure of fetch or scrape does not skip mark_url_complete
AfterFailure == "mark"

AfterGet(url_given) == IF url_given THEN "polite" ELSE "done"
AfterPolite == "fetch"
AfterScrape(links) == IF links = {} THEN "mark" ELSE "add"
AfterMark == "get"

(***************************************************************************)
(* The analytics engine (src/utils/analytics.py): pure parts.              *)
(***************************************************************************)
\* Analytics(save_every_pages=...): mutating calls between two checkpoints
save_every_pages == 2
\* Analytics(save_every_seconds=...), in clock ticks
save_every_seconds == 1
\* scraper calls in one behaviour
MaxScrapes == 2

\* the threads that call scraper
Threads == {"t1", "t2"}
NoThread == "none"

\* page texts, as the pieces between non-letters
Text2 == <<"x", "y">>
Text5 == <<"Alpha", "beta", "the", "gamma", "delta", "of", "omega">>
Text12 == [i \in 1..12 |-> IF i % 2 = 1 THEN "gamma" ELSE "delta"]
Text100 == [i \in 1..100 |-> IF i % 2 = 1 THEN "alpha" ELSE "beta"]
\* Text100 with its last word changed
Text100n == [i \in 1..100 |-> IF i = 100 THEN "omega" ELSE Text100[i]]
\* another text of 100 words
Text100f == [i \in 1..100 |-> IF i % 2 = 1 THEN "gamma" ELSE "omega"]

\* some of _default_stopwords()
StopWords == {"a", "and", "of", "the"}

\* number of letters of a piece
Letters(w) ==
    CASE w \in {"a", "x", "y"} -> 1
      [] w = "of" -> 2
      [] w \in {"and", "the"} -> 3
      [] w = "beta" -> 4
      [] OTHER -> 5

\* Analytics.tokenize: the matches of [a-zA-Z]{2,}, lowercased, stopwords out
tokenize(text) ==
    LET found == SelectSeq(text, LAMBDA w : Letters(w) >= 2)
        words == [i \in 1..Len(found) |-> Lower(found[i])]
    IN  SelectSeq(words, LAMBDA w : w \notin StopWords)

\* is_duplicate_text(near_threshold_bits=3)
near_threshold_bits == 3

\* _simhash(_shingles(words)): the 64-bit fingerprint as four bands of 16
\* bits, each band the set of its 1 bits; the fingerprints of Text100 and
\* Text100n are one bit apart, that of Text100f has the first band of both
\* and is ten and nine bits away
simhash(words) ==
    CASE words = tokenize(Text100) -> <<{0, 3}, {1}, {2, 5}, {7}>>
      [] words = tokenize(Text100n) -> <<{0, 3}, {1}, {2}, {7}>>
      [] words = tokenize(Text100f) -> <<{0, 3}, {4, 9}, {6, 8}, {10, 11}>>
      [] OTHER -> <<{}, {}, {}, {}>>

\* bucket_keys leaving the last band out
bucket_keys_threebands(sim) == {<<i, sim[i]>> : i \in 1..3}

\* bucket_keys: (band index, band value) for each of the four bands
bucket_keys(sim) == {<<i, sim[i]>> : i \in 1..4}

\* (sim ^ cand).bit_count()
bit_count_xor(a, b) ==
    LET d(i) == Cardinality((a[i] \ b[i]) \cup (b[i] \ a[i]))
    IN  d(1) + d(2) + d(3) + d(4)

\* Counter: c[k] += n
Bump(c, k, n) == IF k \in DOMAIN c THEN [c EXCEPT ![k] = @ + n] ELSE c @@ (k :> n)

\* Counter.update(words)
CounterUpdate(c, words) ==
    [w \in DOMAIN c \cup {words[i] : i \in 1..Len(words)} |->
        (IF w \in DOMAIN c THEN c[w] ELSE 0)
            + Cardinality({i \in 1..Len(words) : words[i] = w})]

\* the fields Analytics.__init__ sets; since_save is now - _last_save_at
EmptyEngine ==
    [unique |-> {}, subdomains |-> <<>>, word_freq |-> <<>>,
     longest |-> [url |-> EmptyUrl, words |-> 0],
     exact |-> {}, buckets |-> {},
     dup_exact |-> 0, dup_near |-> 0, lowinfo |-> 0,
     dirty |-> 0, since_save |-> 0]

\* Analytics._seen_key
seen_key(url) == sha256(urldefrag(url))

\* host.endswith(".uci.edu")
EndsWithUciEdu(host) == host # "uci.edu" /\ "uci.edu" \in HostSuffixes(host)

\* record_url that tests the set and does not insert
record_url_noinsert(E, url) ==
    IF url = EmptyUrl THEN [E |-> E, ret |-> FALSE, wrote |-> FALSE]
    ELSE IF seen_key(urldefrag(url)) \in E.unique
    THEN [E |-> E, ret |-> FALSE, wrote |-> FALSE]
    ELSE [E |-> [E EXCEPT !.dirty = @ + 1], ret |-> TRUE, wrote |-> TRUE]

\* record_url keyed by the canonical form of the URL
record_url_canonical(E, url) ==
    IF url = EmptyUrl THEN [E |-> E, ret |-> FALSE, wrote |-> FALSE]
    ELSE LET url_key == normalize(url)
             url_hash == seen_key(url_key)
             host == Lower(url_key.host)
         IN  IF url_hash \in E.unique
             THEN [E |-> E, ret |-> FALSE, wrote |-> FALSE]
             ELSE [E |-> [E EXCEPT !.unique = @ \cup {url_hash},
                                   !.subdomains = IF EndsWithUciEdu(host)
                                                  THEN Bump(@, host, 1) ELSE @,
                                   !.dirty = @ + 1],
                   ret |-> TRUE, wrote |-> TRUE]

\* Analytics.record_url up to its _maybe_save_locked: the engine after it,
\* what it returns, and whether it got to _maybe_save_locked
record_url(E, url) ==
    IF url = EmptyUrl THEN [E |-> E, ret |-> FALSE, wrote |-> FALSE]
    ELSE LET url_key == urldefrag(url)
             url_hash == seen_key(url_key)
             host == Lower(url_key.host)
         IN  IF url_hash \in E.unique
             THEN [E |-> E, ret |-> FALSE, wrote |-> FALSE]
             ELSE [E |-> [E EXCEPT !.unique = @ \cup {url_hash},
                                   !.subdomains = IF EndsWithUciEdu(host)
                                                  THEN Bump(@, host, 1) ELSE @,
                                   !.dirty = @ + 1],
                   ret |-> TRUE, wrote |-> TRUE]

\* Analytics.record_words up to its _maybe_save_locked
record_words(E, url, words) ==
    IF url = EmptyUrl \/ words = <<>> THEN [E |-> E, ret |-> FALSE, wrote |-> FALSE]
    ELSE [E |-> [E EXCEPT !.longest = IF Len(words) > @.words
                                      THEN [url |-> urldefrag(url), words |-> Len(words)]
                                      ELSE @,
                          !.word_freq = CounterUpdate(@, words),
                          !.dirty = @ + 1],
          ret |-> FALSE, wrote |-> TRUE]

\* mark_lowinfo_skipped counting twice
mark_lowinfo_skipped_twice(E) ==
    [E |-> [E EXCEPT !.lowinfo = @ + 2, !.dirty = @ + 1], ret |-> FALSE, wrote |-> TRUE]

\* Analytics.mark_lowinfo_skipped up to its _maybe_save_locked
mark_lowinfo_skipped(E) ==
    [E |-> [E EXCEPT !.lowinfo = @ + 1, !.dirty = @ + 1], ret |-> FALSE, wrote |-> TRUE]

\* is_duplicate_text that never registers a digest
is_duplicate_text_noregister(E, words) ==
    IF words = <<>> THEN [E |-> E, ret |-> FALSE, wrote |-> FALSE]
    ELSE IF sha256(words) \in E.exact
    THEN [E |-> [E EXCEPT !.dup_exact = @ + 1], ret |-> TRUE, wrote |-> FALSE]
    ELSE [E |-> [E EXCEPT !.dirty = @ + 1], ret |-> FALSE, wrote |-> TRUE]

\* is_duplicate_text looking for a near fingerprint before it looks for the
\* digest
is_duplicate_text_nearfirst(E, words) ==
    IF words = <<>> THEN [E |-> E, ret |-> FALSE, wrote |-> FALSE]
    ELSE LET digest == sha256(words)
             sim == simhash(words)
             keys == bucket_keys(sim)
             candidates == {b[2] : b \in {c \in E.buckets : c[1] \in keys}}
         IN  IF \E cand \in candidates :
                    bit_count_xor(sim, cand) <= near_threshold_bits
             THEN [E |-> [E EXCEPT !.dup_near = @ + 1], ret |-> TRUE, wrote |-> FALSE]
             ELSE IF digest \in E.exact
             THEN [E |-> [E EXCEPT !.dup_exact = @ + 1], ret |-> TRUE, wrote |-> FALSE]
             ELSE [E |-> [E EXCEPT !.exact = @ \cup {digest},
                                   !.buckets = @ \cup {<<k, sim>> : k \in keys},
                                   !.dirty = @ + 1],
                   ret |-> FALSE, wrote |-> TRUE]

\* the part of is_duplicate_text under the lock, for a digest and a
\* fingerprint: the exact test, the scan of the fingerprints stored under
\* one of the four keys, the registration
check_and_register(E, digest, sim) ==
    LET keys == bucket_keys(sim)
        candidates == {b[2] : b \in {c \in E.buckets : c[1] \in keys}}
    IN  IF digest \in E.exact
        THEN [E |-> [E EXCEPT !.dup_exact = @ + 1], ret |-> TRUE, wrote |-> FALSE]
        ELSE IF \E cand \in candidates :
                   bit_count_xor(sim, cand) <= near_threshold_bits
        THEN [E |-> [E EXCEPT !.dup_near = @ + 1], ret |-> TRUE, wrote |-> FALSE]
        ELSE [E |-> [E EXCEPT !.exact = @ \cup {digest},
                              !.buckets = @ \cup {<<k, sim>> : k \in keys},
                              !.dirty = @ + 1],
              ret |-> FALSE, wrote |-> TRUE]

\* Analytics.is_duplicate_text up to its _maybe_save_locked, which the
\* duplicate outcomes return without reaching
is_duplicate_text(E, words) ==
    IF words = <<>> THEN [E |-> E, ret |-> FALSE, wrote |-> FALSE]
    ELSE check_and_register(E, sha256(words), simhash(words))

\* the test of _maybe_save_locked
SaveDue(E) == E.dirty >= save_every_pages \/ E.since_save >= save_every_seconds

\* a file that does not exist
Absent == [kind |-> "absent"]
\* a file opened for writing and not yet complete
Torn == [kind |-> "torn"]
\* a state.pkl that pickle.load rejects
Unparseable == [kind |-> "garbage"]

\* the state dict of _save_locked
Snapshot(E) ==
    [unique |-> E.unique, subdomains |-> E.subdomains, word_freq |-> E.word_freq,
     longest |-> E.longest, exact |-> E.exact, buckets |-> E.buckets,
     dup_exact |-> E.dup_exact, dup_near |-> E.dup_near, lowinfo |-> E.lowinfo]

\* pickle.dump(state): bad names the counter int() cannot convert, if any
StateFile(E) == [kind |-> "dict", state |-> Snapshot(E), bad |-> ""]

\* Analytics.top_words(50): the counts of the words that are not stopwords
top_words(E) == [w \in DOMAIN E.word_freq \ StopWords |-> E.word_freq[w]]

\* the summary dict of _save_locked
SummaryFile(E) ==
    [kind |-> "json", unique_pages |-> Cardinality(E.unique),
     longest_page |-> E.longest, top_words |-> top_words(E),
     subdomains |-> E.subdomains,
     duplicates |-> [exact |-> E.dup_exact, near |-> E.dup_near,
                     lowinfo |-> E.lowinfo]]

\* the order in which _load_if_present assigns the fields
LoadOrder ==
    <<"unique", "subdomains", "word_freq", "longest", "exact", "buckets",
      "dup_exact", "dup_near", "lowinfo">>

\* Analytics._load_if_present: a missing or unparseable file, or one that
\* is not a dict, changes nothing; a dict is assigned field by field until
\* an int() raises
load_if_present(E, file) ==
    IF file.kind # "dict" THEN E
    ELSE LET stop == IF file.bad = "" THEN Len(LoadOrder) + 1
                     ELSE CHOOSE i \in 1..Len(LoadOrder) : LoadOrder[i] = file.bad
         IN  [f \in DOMAIN E |->
                 IF \E i \in 1..(stop - 1) : LoadOrder[i] = f
                 THEN file.state[f] ELSE E[f]]

\* a snapshot whose duplicate_exact is not a number
MalformedFile ==
    [kind |-> "dict",
     state |-> Snapshot(record_url(EmptyEngine, U_b).E),
     bad |-> "dup_exact"]

\* what state.pkl may hold before the first launch
FoundFiles == {Absent, Unparseable, MalformedFile}

\* the thresholds of the low-information heuristics and of the duplicate test
MaxOutlinks == 1000
MinWords == 10
ThinOutlinks == 200
\* word_count / (outlink_count + 1) < 0.05, as ThinFactor * word_count < ...
ThinFactor == 20
DupMinWords == 50

\* the pages scraped: effective URL, text, anchors resolved against the
\* URL, the count of further anchors (only on pages that return no links),
\* and whether extract_next_links gets as far as parsing the page
Page(url, text, hrefs, more, parsed) ==
    [url |-> url, text |-> text, hrefs |-> hrefs, more |-> more, parsed |-> parsed]

PageSeed == Page(U_root, Text2, {U_a, U_aF}, 0, TRUE)
PageVariant == Page(U_rootV, Text5, {U_b}, 2000, TRUE)
PageA == Page(U_aF, Text100, {U_b, U_pdf, U_ext}, 0, TRUE)
PageB == Page(U_b, Text100, {U_root}, 0, TRUE)
PageNear == Page(U_ext, Text100n, {U_root}, 0, TRUE)
PageDir == Page(U_a, Text12, {U_b}, 300, TRUE)
PageHuge == Page(U_pdf, Text12, {U_b}, 2000, FALSE)
\* an HTML body on which no parser succeeds: BeautifulSoup raises with lxml
\* and with html.parser, or is missing, and _FallbackHTMLParser.feed raises
PageBroken == Page(U_b, Text12, {U_root}, 0, FALSE)

Pages == {PageSeed, PageVariant, PageA, PageB, PageNear, PageDir, PageHuge, PageBroken}

\* page_url: the effective URL without its fragment
page_url(p) == urldefrag(p.url)

\* the set out of extract_next_links and its size
out(p) == {urldefrag(x) : x \in p.hrefs}
outlink_count(p) == Cardinality(out(p)) + p.more

\* the low-information tests without the one on the number of words
low_info_anylength(word_count, outlinks) ==
    \/ outlinks > MaxOutlinks
    \/ outlinks > ThinOutlinks /\ ThinFactor * word_count < outlinks + 1

\* the three low-information tests of extract_next_links
low_info(word_count, outlinks) ==
    \/ outlinks > MaxOutlinks
    \/ word_count < MinWords
    \/ outlinks > ThinOutlinks /\ ThinFactor * word_count < outlinks + 1

\* scraper: the links extract_next_links returns that pass is_valid
valid_links(p) == {l \in out(p) : is_valid(l)}

(***************************************************************************)
(* Initial state: nothing on disk, no process.                             *)
(***************************************************************************)
NoMemory ==
    /\ closed = FALSE
    /\ in_progress = 0
    /\ seen = {}
    /\ pending = <<>>
    /\ allowed_in = [h \in Hosts |-> 0]

NoThreads ==
    /\ wpc = [w \in Workers |-> "off"]
    /\ wurl = [w \in Workers |-> EmptyUrl]
    /\ wlinks = [w \in Workers |-> {}]
    /\ wsleep = [w \in Workers |-> 0]
    /\ wfail = [w \in Workers |-> ""]

NoHistory ==
    /\ returned = [u \in CanonUrls |-> 0]
    /\ enqueued = {}
    /\ grant_age = [h \in Hosts |-> time_delay]
    /\ grant_gap = [h \in Hosts |-> time_delay]

\* a process that ends loses its memory, its threads and their history
Wipe ==
    /\ closed' = FALSE
    /\ in_progress' = 0
    /\ seen' = {}
    /\ pending' = <<>>
    /\ allowed_in' = [h \in Hosts |-> 0]
    /\ wpc' = [w \in Workers |-> "off"]
    /\ wurl' = [w \in Workers |-> EmptyUrl]
    /\ wlinks' = [w \in Workers |-> {}]
    /\ wsleep' = [w \in Workers |-> 0]
    /\ wfail' = [w \in Workers |-> ""]
    /\ returned' = [u \in CanonUrls |-> 0]
    /\ enqueued' = {}
    /\ grant_age' = [h \in Hosts |-> time_delay]
    /\ grant_gap' = [h \in Hosts |-> time_delay]

\* no page: what a thread holds between two scraper calls
NoPage == Page(EmptyUrl, <<>>, {}, 0, FALSE)

\* what a scraper call returned: nothing yet, or a list of links
NoResult == [returned |-> FALSE, links |-> {}]
Result(links) == [returned |-> TRUE, links |-> links]

\* the directory analytics/ with no file in it
NoStore == [pkl |-> Absent, pkl_tmp |-> Absent, summary |-> Absent, summary_tmp |-> Absent]

\* no process: no Analytics instance, no scraping thread
NoAnalysis ==
    /\ engine = EmptyEngine
    /\ aproc = "off"
    /\ lock = NoThread
    /\ saving = ""
    /\ tpc = [t \in Threads |-> "idle"]
    /\ tpage = [t \in Threads |-> NoPage]
    /\ tnew = [t \in Threads |-> FALSE]
    /\ tres = [t \in Threads |-> NoResult]
    /\ scrapes = 0

(***************************************************************************)
(* The fetch (src/utils/download.py).                                      *)
(***************************************************************************)
max_attempts == 3
\* backoff_s before the first sleep, and the cap of its doubling, in seconds
backoff_start == 1
backoff_cap == 10

\* how an attempt can fail: the request raises URLError or TimeoutError, or
\* another exception (a requests timeout or connection error); the body is
\* empty; cbor.loads raises EOFError or ValueError; Response() raises
\* KeyError on a map without url or status
Failures ==
    {"URLError", "TimeoutError", "RequestException", "empty_body", "cbor_error",
     "KeyError"}

Outcomes == Failures \cup {"ok"}

\* the status in the map the cache server answers with
ServerStatuses == {200, 404}

\* download without its last clause, except Exception
handler_narrow(failure) ==
    CASE failure = "empty_body" -> "else"
      [] failure = "cbor_error" -> "except (EOFError, ValueError)"
      [] failure \in {"URLError", "TimeoutError"} -> "except (URLError, TimeoutError)"
      [] OTHER -> "none"

\* the clause of download that takes a failed attempt
handler(failure) ==
    CASE failure = "empty_body" -> "else"
      [] failure = "cbor_error" -> "except (EOFError, ValueError)"
      [] failure \in {"URLError", "TimeoutError"} -> "except (URLError, TimeoutError)"
      [] OTHER -> "except Exception"

\* Response(resp_dict): the fields the crawler reads
Response(url, status, error) == [url |-> url, status |-> status, error |-> error]

NoResponse == Response(EmptyUrl, -1, "")

\* report.py not run: no report file, no exit status
NoReport == [pc |-> "idle", out |-> Absent, code |-> -1]

\* no pure function called yet
NoCall == [fn |-> "", arg |-> <<>>, val |-> <<>>]

\* no download call made yet
NoDownload ==
    [pc |-> "idle", url |-> EmptyUrl, attempt |-> 0, backoff_s |-> 0,
     last_err |-> "", slept |-> <<>>, tried |-> <<>>, resp |-> NoResponse]

Init ==
    /\ store = NoStore
    /\ NoAnalysis
    /\ dl = NoDownload
    /\ rep = NoReport
    /\ calc = NoCall
    /\ seed_urls \in SeedConfigs
    /\ proc = "off"
    /\ restart = FALSE
    /\ had_file = FALSE
    /\ runs = 0
    /\ files = {}
    /\ rows = NoRows
    /\ NoMemory
    /\ NoThreads
    /\ NoHistory

(***************************************************************************)
(* Launch and Frontier.__init__.                                           *)
(***************************************************************************)
\* launch.py: the process starts; Frontier.__init__ sets its fields
Launch(r) ==
    /\ proc = "off"
    /\ runs < MaxRuns
    /\ proc' = "ctor_files"
    /\ restart' = r
    /\ had_file' = ("db" \in files)
    /\ runs' = runs + 1
    /\ UNCHANGED <<seed_urls, disk, memory, threads, history>>
    /\ UNCHANGED <<analysis, dl, rep, calc>>

\* __init__ leaving a save file it finds in restart mode
CtorFiles_keep ==
    /\ proc = "ctor_files"
    /\ proc' = "ctor_open"
    /\ UNCHANGED <<seed_urls, restart, had_file, runs, disk, memory, threads, history>>
    /\ UNCHANGED <<analysis, dl, rep, calc>>

\* __init__: a save file found in restart mode is removed with its sidecars
CtorFiles ==
    /\ proc = "ctor_files"
    /\ proc' = "ctor_open"
    /\ IF "db" \in files /\ restart
       THEN /\ files' = files \ SaveFiles
            /\ rows' = NoRows
       ELSE UNCHANGED disk
    /\ UNCHANGED <<seed_urls, restart, had_file, runs, memory, threads, history>>
    /\ UNCHANGED <<analysis, dl, rep, calc>>

\* __init__: sqlite3.connect, WAL mode, CREATE TABLE IF NOT EXISTS
CtorOpen ==
    /\ proc = "ctor_open"
    /\ proc' = "ctor_load"
    /\ files' = files \cup SaveFiles
    /\ rows' = IF "db" \in files THEN rows ELSE NoRows
    /\ UNCHANGED <<seed_urls, restart, had_file, runs, memory, threads, history>>
    /\ UNCHANGED <<analysis, dl, rep, calc>>

\* Frontier._parse_save_file on a frontier value, the rows read in order q
parse_save_file(F, q) ==
    [F EXCEPT !.seen = @ \cup DOMAIN F.rows,
              !.pending = @ \o [i \in 1..Len(q) |-> F.rows[q[i]].url]]

\* __init__: seed (restart), or load the save file and seed if it is empty
CtorLoad ==
    /\ proc = "ctor_load"
    /\ proc' = "up"
    /\ \E q \in Listings(TbdRows(rows)) :
          LET L == parse_save_file(Frontier, q)
              F == IF restart THEN add_seeds(Frontier, seed_urls)
                   ELSE IF L.seen = {} THEN add_seeds(L, seed_urls)
                   ELSE L
          IN  /\ seen' = F.seen
              /\ rows' = F.rows
              /\ pending' = F.pending
              /\ enqueued' = {F.pending[i] : i \in 1..Len(F.pending)}
    /\ wpc' = [w \in Workers |-> "get"]
    /\ UNCHANGED <<seed_urls, restart, had_file, runs, files, closed, in_progress,
                   allowed_in, wurl, wlinks, wsleep, wfail, returned, grant_age,
                   grant_gap>>
    /\ UNCHANGED <<analysis, dl, rep, calc>>

\* the process is killed: memory is lost, the files stay as they are
Crash ==
    /\ proc # "off"
    /\ proc' = "off"
    /\ restart' = FALSE
    /\ had_file' = FALSE
    /\ Wipe
    /\ UNCHANGED <<seed_urls, runs, disk>>
    /\ UNCHANGED <<analysis, dl, rep, calc>>

\* every worker has returned: the process exits and SQLite, closing the
\* store, checkpoints the write-ahead log and removes the sidecars
Exit ==
    /\ proc = "up"
    /\ \A w \in Workers : wpc[w] = "done"
    /\ proc' = "off"
    /\ restart' = FALSE
    /\ had_file' = FALSE
    /\ files' = files \ {"wal", "shm"}
    /\ Wipe
    /\ UNCHANGED <<seed_urls, runs, rows>>
    /\ UNCHANGED <<analysis, dl, rep, calc>>

(***************************************************************************)
(* The frontier's operations, each called by a worker.                     *)
(***************************************************************************)
\* Frontier.get_tbd_url
GetTbdUrl(w) ==
    /\ proc = "up"
    /\ wpc[w] = "get"
    /\ IF ~closed /\ pending = <<>>
       THEN IF in_progress = 0
            THEN /\ closed' = TRUE
                 /\ wpc' = NotifyAll([wpc EXCEPT ![w] = AfterGet(FALSE)])
                 /\ UNCHANGED <<in_progress, pending, wurl, returned>>
            ELSE /\ wpc' = [wpc EXCEPT ![w] = "waiting"]
                 /\ UNCHANGED <<closed, in_progress, pending, wurl, returned>>
       ELSE IF closed
            THEN /\ wpc' = [wpc EXCEPT ![w] = AfterGet(FALSE)]
                 /\ UNCHANGED <<closed, in_progress, pending, wurl, returned>>
            ELSE LET url == pending[Len(pending)]
                 IN  /\ pending' = SubSeq(pending, 1, Len(pending) - 1)
                     /\ in_progress' = in_progress + 1
                     /\ wurl' = [wurl EXCEPT ![w] = url]
                     /\ wpc' = [wpc EXCEPT ![w] = AfterGet(TRUE)]
                     /\ returned' = [returned EXCEPT ![url] = @ + 1]
                     /\ UNCHANGED closed
    /\ UNCHANGED <<launch, disk, seen, allowed_in, wlinks, wsleep, wfail, enqueued,
                   grant_age, grant_gap>>
    /\ UNCHANGED <<analysis, dl, rep, calc>>

\* Frontier.wait_for_politeness: one pass of its loop, after any sleep
WaitForPoliteness(w) ==
    /\ proc = "up"
    /\ wpc[w] = "polite"
    /\ wsleep[w] = 0
    /\ LET domain == Lower(wurl[w].host)
           P == politeness(allowed_in, domain)
       IN  IF domain = ""
           THEN /\ wpc' = [wpc EXCEPT ![w] = AfterPolite]
                /\ UNCHANGED <<allowed_in, wsleep, grant_age, grant_gap>>
           ELSE IF P.granted
           THEN /\ allowed_in' = P.allowed
                /\ wpc' = [wpc EXCEPT ![w] = AfterPolite]
                /\ grant_gap' = [grant_gap EXCEPT ![domain] = grant_age[domain]]
                /\ grant_age' = [grant_age EXCEPT ![domain] = 0]
                /\ UNCHANGED wsleep
           ELSE /\ wsleep' = [wsleep EXCEPT ![w] = P.wait_s]
                /\ UNCHANGED <<allowed_in, wpc, grant_age, grant_gap>>
    /\ UNCHANGED <<launch, disk, closed, in_progress, seen, pending, wurl, wlinks,
                   wfail, returned, enqueued>>
    /\ UNCHANGED <<analysis, dl, rep, calc>>

\* the monotonic clock advances by one tick
Tick ==
    /\ proc = "up"
    /\ \/ \E h \in Hosts : allowed_in[h] > 0 \/ grant_age[h] < time_delay
       \/ \E w \in Workers : wsleep[w] > 0
    /\ allowed_in' = [h \in Hosts |-> Max(0, allowed_in[h] - 1)]
    /\ wsleep' = [w \in Workers |-> Max(0, wsleep[w] - 1)]
    /\ grant_age' = [h \in Hosts |-> Min(time_delay, grant_age[h] + 1)]
    /\ UNCHANGED <<launch, disk, closed, in_progress, seen, pending, wpc, wurl,
                   wlinks, wfail, returned, enqueued, grant_gap>>
    /\ UNCHANGED <<analysis, dl, rep, calc>>

\* download, then scraper(url, resp): the response is a page, the synthetic
\* response of a failed download, or a page with an href that makes
\* urljoin raise, which scraper does not catch
Fetch(w) ==
    /\ proc = "up"
    /\ wpc[w] = "fetch"
    /\ \E resp \in Responses :
          LET links == scraper(wurl[w], resp)
          IN  /\ wlinks' = [wlinks EXCEPT ![w] = links]
              /\ wfail' = [wfail EXCEPT ![w] = Failure(resp)]
              /\ wpc' = [wpc EXCEPT ![w] =
                            IF scraper_raises(resp) THEN AfterFailure
                            ELSE AfterScrape(links)]
    /\ UNCHANGED <<launch, disk, memory, wurl, wsleep, history>>
    /\ UNCHANGED <<analysis, dl, rep, calc>>

\* Frontier.add_url, called by worker w with its scraped link l
AddLink(w, l) ==
    /\ proc = "up"
    /\ wpc[w] = "add"
    /\ l \in wlinks[w]
    /\ LET F == add_url(Frontier, l)
           rest == wlinks[w] \ {l}
       IN  /\ seen' = F.seen
           /\ rows' = F.rows
           /\ pending' = F.pending
           /\ enqueued' = IF F.notified > 0
                          THEN enqueued \cup {F.pending[Len(F.pending)]}
                          ELSE enqueued
           /\ wlinks' = [wlinks EXCEPT ![w] = rest]
           /\ wpc' \in Notify([wpc EXCEPT ![w] = AfterScrape(rest)], F.notified)
    /\ UNCHANGED <<launch, files, closed, in_progress, allowed_in, wurl, wsleep,
                   wfail, returned, grant_age, grant_gap>>
    /\ UNCHANGED <<analysis, dl, rep, calc>>

\* the worker's loop over the links scraper returned, in any order
AddUrl(w) == \E l \in wlinks[w] : AddLink(w, l)

\* Frontier.mark_url_complete
MarkUrlComplete(w) ==
    /\ proc = "up"
    /\ wpc[w] = "mark"
    /\ LET F == mark_url_complete(Frontier, wurl[w])
       IN  /\ rows' = F.rows
           /\ in_progress' = F.in_progress
           /\ closed' = F.closed
           /\ wpc' = NotifyAll([wpc EXCEPT ![w] = AfterMark])
    /\ wurl' = [wurl EXCEPT ![w] = EmptyUrl]
    /\ wfail' = [wfail EXCEPT ![w] = ""]
    /\ UNCHANGED <<launch, files, seen, pending, allowed_in, wlinks, wsleep, history>>
    /\ UNCHANGED <<analysis, dl, rep, calc>>

\* Frontier.add_url called by any other thread, with any URL
ExtAddUrl(u) ==
    /\ proc = "up"
    /\ LET F == add_url(Frontier, u)
       IN  /\ seen' = F.seen
           /\ rows' = F.rows
           /\ pending' = F.pending
           /\ enqueued' = IF F.notified > 0
                          THEN enqueued \cup {F.pending[Len(F.pending)]}
                          ELSE enqueued
           /\ wpc' \in Notify(wpc, F.notified)
    /\ UNCHANGED <<launch, files, closed, in_progress, allowed_in, wurl, wlinks,
                   wsleep, wfail, returned, grant_age, grant_gap>>
    /\ UNCHANGED <<analysis, dl, rep, calc>>

(***************************************************************************)
(* The analytics engine at work: scraper calls by the scraping threads,    *)
(* checkpoints, and the process that holds the Analytics instance.         *)
(***************************************************************************)
crawler == <<seed_urls, proc, restart, had_file, disk, memory, threads, history, dl, rep,
             calc>>

\* analytics = Analytics() at import: __init__, then _load_if_present
AStart ==
    /\ aproc = "off"
    /\ runs < MaxRuns
    /\ runs' = runs + 1
    /\ aproc' = "up"
    /\ engine' = load_if_present(EmptyEngine, store.pkl)
    /\ UNCHANGED <<crawler, store, lock, saving, tpc, tpage, tnew, tres, scrapes>>

\* the process is killed: the instance is lost, the files stay as they are
ACrash ==
    /\ aproc = "up"
    /\ aproc' = "off"
    /\ engine' = EmptyEngine
    /\ lock' = NoThread
    /\ saving' = ""
    /\ tpc' = [t \in Threads |-> "idle"]
    /\ tpage' = [t \in Threads |-> NoPage]
    /\ tnew' = [t \in Threads |-> FALSE]
    /\ tres' = [t \in Threads |-> NoResult]
    /\ UNCHANGED <<crawler, runs, store, scrapes>>

\* the monotonic clock advances by one tick
ATick ==
    /\ aproc = "up"
    /\ engine.since_save < save_every_seconds
    /\ engine' = [engine EXCEPT !.since_save = @ + 1]
    /\ UNCHANGED <<crawler, runs, store, aproc, lock, saving, tpc, tpage, tnew, tres,
                   scrapes>>

\* the end of a call made with the lock held: _maybe_save_locked, when the
\* call reached it, starts _save_locked if a save is due, keeping the lock;
\* now is read here, so since_save counts from here on
EndCall(t, R) ==
    IF R.wrote /\ SaveDue(R.E)
    THEN /\ engine' = [R.E EXCEPT !.since_save = 0]
         /\ lock' = t
         /\ saving' = "pkl_open"
    ELSE /\ engine' = R.E
         /\ UNCHANGED <<lock, saving>>

\* scraper(url, resp) begins on a status-200 response with content; a page
\* with a non-HTML Content-Type or more than 5,000,000 bytes returns at
\* once, and so does a page on which the fallback parser raises
BeginScrape(t, p) ==
    /\ aproc = "up" /\ lock # t
    /\ tpc[t] = "idle"
    /\ scrapes < MaxScrapes
    /\ scrapes' = scrapes + 1
    /\ IF p.parsed
       THEN /\ tpage' = [tpage EXCEPT ![t] = p]
            /\ tpc' = [tpc EXCEPT ![t] = "record_url"]
            /\ tres' = [tres EXCEPT ![t] = NoResult]
       ELSE /\ tpage' = [tpage EXCEPT ![t] = p]
            /\ tres' = [tres EXCEPT ![t] = Result({})]
            /\ UNCHANGED tpc
    /\ UNCHANGED <<crawler, runs, engine, store, aproc, lock, saving, tnew>>

\* is_new = analytics.record_url(page_url)
RecordUrl(t) ==
    /\ aproc = "up" /\ lock = NoThread
    /\ tpc[t] = "record_url"
    /\ LET R == record_url(engine, page_url(tpage[t]))
       IN  /\ EndCall(t, R)
           /\ tnew' = [tnew EXCEPT ![t] = R.ret]
    /\ tpc' = [tpc EXCEPT ![t] = "heuristics"]
    /\ UNCHANGED <<crawler, runs, store, aproc, tpage, tres, scrapes>>

\* tokenize, then the low-information tests and the test for the
\* duplicate check; no call of the engine
Heuristics(t) ==
    /\ aproc = "up" /\ lock # t
    /\ tpc[t] = "heuristics"
    /\ LET words == tokenize(tpage[t].text)
       IN  IF low_info(Len(words), outlink_count(tpage[t]))
           THEN /\ tpc' = [tpc EXCEPT ![t] = "lowinfo"]
                /\ UNCHANGED tres
           ELSE IF tnew[t] /\ Len(words) >= DupMinWords
           THEN /\ tpc' = [tpc EXCEPT ![t] = "is_duplicate"]
                /\ UNCHANGED tres
           ELSE /\ tpc' = [tpc EXCEPT ![t] = "idle"]
                /\ tres' = [tres EXCEPT ![t] = Result(valid_links(tpage[t]))]
    /\ UNCHANGED <<crawler, runs, engine, store, aproc, lock, saving, tpage, tnew,
                   scrapes>>

\* analytics.mark_lowinfo_skipped(); return []
MarkLowinfoSkipped(t) ==
    /\ aproc = "up" /\ lock = NoThread
    /\ tpc[t] = "lowinfo"
    /\ EndCall(t, mark_lowinfo_skipped(engine))
    /\ tpc' = [tpc EXCEPT ![t] = "idle"]
    /\ tres' = [tres EXCEPT ![t] = Result({})]
    /\ UNCHANGED <<crawler, runs, store, aproc, tpage, tnew, scrapes>>

\* if analytics.is_duplicate_text(words): return []
IsDuplicateText(t) ==
    /\ aproc = "up" /\ lock = NoThread
    /\ tpc[t] = "is_duplicate"
    /\ LET R == is_duplicate_text(engine, tokenize(tpage[t].text))
       IN  /\ EndCall(t, R)
           /\ IF R.ret
              THEN /\ tpc' = [tpc EXCEPT ![t] = "idle"]
                   /\ tres' = [tres EXCEPT ![t] = Result({})]
              ELSE /\ tpc' = [tpc EXCEPT ![t] = "record_words"]
                   /\ UNCHANGED tres
    /\ UNCHANGED <<crawler, runs, store, aproc, tpage, tnew, scrapes>>

\* analytics.record_words(page_url, words); return list(out), filtered
RecordWords(t) ==
    /\ aproc = "up" /\ lock = NoThread
    /\ tpc[t] = "record_words"
    /\ EndCall(t, record_words(engine, page_url(tpage[t]), tokenize(tpage[t].text)))
    /\ tpc' = [tpc EXCEPT ![t] = "idle"]
    /\ tres' = [tres EXCEPT ![t] = Result(valid_links(tpage[t]))]
    /\ UNCHANGED <<crawler, runs, store, aproc, tpage, tnew, scrapes>>

\* _save_locked writing the snapshot straight into state.pkl
SaveOpen_inplace ==
    /\ aproc = "up" /\ saving = "pkl_open"
    /\ store' = [store EXCEPT !.pkl = Torn]
    /\ saving' = "pkl_write"
    /\ UNCHANGED <<crawler, runs, engine, aproc, lock, tpc, tpage, tnew, tres, scrapes>>

\* _save_locked: open(tmp_path, "wb") creates or truncates state.pkl.tmp
SaveOpen ==
    /\ aproc = "up" /\ saving = "pkl_open"
    /\ store' = [store EXCEPT !.pkl_tmp = Torn]
    /\ saving' = "pkl_write"
    /\ UNCHANGED <<crawler, runs, engine, aproc, lock, tpc, tpage, tnew, tres, scrapes>>

\* _save_locked: pickle.dump(state, f) and the close of the file
SaveWrite ==
    /\ aproc = "up" /\ saving = "pkl_write"
    /\ store' = [store EXCEPT !.pkl_tmp = StateFile(engine)]
    /\ saving' = "pkl_replace"
    /\ UNCHANGED <<crawler, runs, engine, aproc, lock, tpc, tpage, tnew, tres, scrapes>>

\* _save_locked: os.replace(tmp_path, self.state_path)
SaveReplace ==
    /\ aproc = "up" /\ saving = "pkl_replace"
    /\ store' = [store EXCEPT !.pkl = store.pkl_tmp, !.pkl_tmp = Absent]
    /\ saving' = "summary_open"
    /\ UNCHANGED <<crawler, runs, engine, aproc, lock, tpc, tpage, tnew, tres, scrapes>>

\* _save_locked: open(tmp_summary_path, "w")
SummaryOpen ==
    /\ aproc = "up" /\ saving = "summary_open"
    /\ store' = [store EXCEPT !.summary_tmp = Torn]
    /\ saving' = "summary_write"
    /\ UNCHANGED <<crawler, runs, engine, aproc, lock, tpc, tpage, tnew, tres, scrapes>>

\* _save_locked: json.dump(summary, f) and the close of the file
SummaryWrite ==
    /\ aproc = "up" /\ saving = "summary_write"
    /\ store' = [store EXCEPT !.summary_tmp = SummaryFile(engine)]
    /\ saving' = "summary_replace"
    /\ UNCHANGED <<crawler, runs, engine, aproc, lock, tpc, tpage, tnew, tres, scrapes>>

\* _save_locked: os.replace(tmp_summary_path, summary_path); back in
\* _maybe_save_locked, _dirty_pages = 0 and _last_save_at = now; the call
\* returns and releases the lock
SummaryReplace ==
    /\ aproc = "up" /\ saving = "summary_replace"
    /\ store' = [store EXCEPT !.summary = store.summary_tmp, !.summary_tmp = Absent]
    /\ saving' = ""
    /\ engine' = [engine EXCEPT !.dirty = 0]
    /\ lock' = NoThread
    /\ UNCHANGED <<crawler, runs, aproc, tpc, tpage, tnew, tres, scrapes>>

SaveStep ==
    \/ SaveOpen
    \/ SaveWrite
    \/ SaveReplace
    \/ SummaryOpen
    \/ SummaryWrite
    \/ SummaryReplace

ScrapeStep(t) ==
    \/ \E p \in Pages : BeginScrape(t, p)
    \/ RecordUrl(t)
    \/ Heuristics(t)
    \/ MarkLowinfoSkipped(t)
    \/ IsDuplicateText(t)
    \/ RecordWords(t)

(***************************************************************************)
(* Specifications.                                                         *)
(***************************************************************************)
WorkerStep(w) ==
    \/ GetTbdUrl(w)
    \/ WaitForPoliteness(w)
    \/ Fetch(w)
    \/ AddUrl(w)
    \/ MarkUrlComplete(w)

Ctor == CtorFiles \/ CtorOpen \/ CtorLoad

Next ==
    \/ \E r \in BOOLEAN : Launch(r)
    \/ Ctor
    \/ \E w \in Workers : WorkerStep(w)
    \/ Tick
    \/ Crash
    \/ Exit

\* the crawler: launches, crashes, and the workers' loops
Spec == Init /\ [][Next]_vars

\* the URLs other threads call add_url with: one that equals a seed after
\* canonicalisation, one that carries a fragment
ExtUrls == {U_rootV, U_aF}

ApiNext ==
    \/ \E r \in BOOLEAN : Launch(r)
    \/ Ctor
    \/ \E w \in Workers : WorkerStep(w)
    \/ Tick
    \/ \E u \in ExtUrls : ExtAddUrl(u)

\* one run of the crawler in which other threads too call add_url, at any
\* time and with any URL
ApiSpec == Init /\ [][ApiNext]_vars

\* the crawler under the scheduling the threads get: a constructor that
\* has begun finishes, a worker that can take a step takes it, time passes
Fairness ==
    /\ WF_vars(Ctor)
    /\ WF_vars(Tick)
    /\ \A w \in Workers : WF_vars(WorkerStep(w))

FairSpec == Spec /\ Fairness


\* launch.py line 26: from crawler import Crawler brings in crawler.frontier,
\* which imports scraper, which imports utils.analytics, whose last line
\* constructs the singleton: __init__, then _load_if_present
Import ==
    /\ aproc = "off"
    /\ runs < MaxRuns
    /\ runs' = runs + 1
    /\ aproc' = "imported"
    /\ engine' = load_if_present(EmptyEngine, store.pkl)
    /\ UNCHANGED <<crawler, store, lock, saving, tpc, tpage, tnew, tres, scrapes>>

\* launch.py lines 28-39 with --restart: shutil.rmtree("analytics"), or,
\* when it raises OSError, os.remove of analytics/state.pkl alone
RemoveAnalytics(tree) ==
    /\ aproc = "imported"
    /\ restart
    /\ store' = IF tree THEN NoStore ELSE [store EXCEPT !.pkl = Absent]
    /\ aproc' = "up"
    /\ UNCHANGED <<crawler, runs, engine, lock, saving, tpc, tpage, tnew, tres, scrapes>>

\* launch.py line 28 without --restart: analytics/ is left as it is
KeepAnalytics ==
    /\ aproc = "imported"
    /\ ~restart
    /\ aproc' = "up"
    /\ UNCHANGED <<crawler, runs, engine, store, lock, saving, tpc, tpage, tnew, tres,
                   scrapes>>

\* everything the reporter's own steps leave alone
beside_report ==
    <<seed_urls, proc, restart, had_file, runs, disk, memory, threads, history, dl,
      calc, tpc, tpage, tnew, tres, scrapes>>

\* the lines report.py writes to --out
ReportFile(E) ==
    [kind |-> "report", unique_pages |-> Cardinality(E.unique),
     longest_page |-> E.longest, top_words |-> top_words(E),
     subdomains |-> E.subdomains]

\* the thread that runs the atexit handlers
MainThread == "main"

\* report.main: the import of utils.analytics raises; return 2
ReportImportFails ==
    /\ rep.pc = "idle" /\ aproc = "off"
    /\ rep' = [rep EXCEPT !.pc = "exited", !.code = 2]
    /\ UNCHANGED <<beside_report, engine, store, aproc, lock, saving>>

\* report.main: Analytics(out_dir, state_file), that is __init__ with
\* _load_if_present and atexit.register(self.save)
ReportLoad ==
    /\ rep.pc = "idle" /\ aproc = "off"
    /\ aproc' = "up"
    /\ engine' = load_if_present(EmptyEngine, store.pkl)
    /\ rep' = [rep EXCEPT !.pc = "loaded"]
    /\ UNCHANGED <<beside_report, store, lock, saving>>

\* report.main: the lines are built and written to out_path; return 0
ReportWrite ==
    /\ rep.pc = "loaded"
    /\ rep' = [rep EXCEPT !.pc = "written", !.out = ReportFile(engine), !.code = 0]
    /\ UNCHANGED <<beside_report, engine, store, aproc, lock, saving>>

\* raise SystemExit(...): the interpreter runs the registered self.save,
\* which takes the lock and enters _save_locked
ReportAtExit ==
    /\ rep.pc = "written"
    /\ rep' = [rep EXCEPT !.pc = "atexit"]
    /\ lock' = MainThread
    /\ saving' = "pkl_open"
    /\ UNCHANGED <<beside_report, engine, store, aproc>>

\* the save is done and the process ends with the status main returned
ReportExit ==
    /\ rep.pc = "atexit" /\ saving = ""
    /\ rep' = [rep EXCEPT !.pc = "exited"]
    /\ aproc' = "off"
    /\ UNCHANGED <<beside_report, engine, store, lock, saving>>

\* everything a call of a pure function leaves alone
beside_calc == <<launch, disk, memory, threads, history, analysis, dl, rep>>

\* normalize(url), and normalize of what it returned
Normalize(u) ==
    /\ calc = NoCall
    /\ calc' = [fn |-> "normalize", arg |-> u,
                val |-> [once |-> normalize(u), twice |-> normalize(normalize(u))]]
    /\ UNCHANGED beside_calc

\* hosts urlsplit rejects: a bracket that is not closed ("Invalid IPv6
\* URL"), brackets around something that is no IP address
MalformedHosts == {"[::a", "[ics.uci.edu]"}

\* the exception urldefrag(url) / urlparse(url) raise, "" when they return
urlparse_error(u) == IF u.host \in MalformedHosts THEN "ValueError" ELSE ""

\* the exceptions the except clause of is_valid names
is_valid_catches == {"TypeError"}

\* a call is_valid(url) as its caller sees it: the body runs inside the
\* try; an exception the except clause names becomes False, any other one
\* leaves the function
IsValid(u) ==
    /\ calc = NoCall
    /\ calc' = [fn |-> "is_valid", arg |-> u,
                val |-> LET e == urlparse_error(u)
                        IN  IF e = "" THEN <<"return", is_valid(u)>>
                            ELSE IF e \in is_valid_catches THEN <<"return", FALSE>>
                            ELSE <<"raise", e>>]
    /\ UNCHANGED beside_calc

\* the calls of is_duplicate_text go on until this many found a duplicate
MaxDups == 2

\* is_duplicate_text(words) on the engine as the call before left it, the
\* first on a new engine
IsDuplicateTextCall(words) ==
    LET E == IF calc = NoCall THEN EmptyEngine ELSE calc.val.E
    IN  /\ E.dup_exact + E.dup_near < MaxDups
        /\ calc' = [fn |-> "is_duplicate_text", arg |-> <<E, words>>,
                    val |-> is_duplicate_text(E, words)]
        /\ UNCHANGED beside_calc

(***************************************************************************)
(* cbor.py: values, the encoder and the decoder, byte by byte.             *)
(***************************************************************************)
\* a natural number as its base-256 digits, most significant first and not
\* 0, so that 2^32 and 2^64 can be written; <<>> is 0
ToNum(n) == 
    LET RECURSIVE digits(_)
        digits(m) == IF m = 0 THEN <<>> ELSE Append(digits(m \div 256), m % 256)
    IN  digits(n)

\* the number of a digit sequence below 2^24
FromNum(d) ==
    LET RECURSIVE value(_)
        value(e) == IF e = <<>> THEN 0 ELSE 256 * value(SubSeq(e, 1, Len(e) - 1)) + e[Len(e)]
    IN  value(d)

\* a digit sequence without its leading zeros
StripZeros(d) ==
    LET nz == {i \in 1..Len(d) : d[i] # 0}
    IN  IF nz = {} THEN <<>>
        ELSE SubSeq(d, CHOOSE i \in nz : \A j \in nz : i <= j, Len(d))

\* n + 1 and n - 1 (n > 0) on digit sequences
NumInc(d) ==
    LET low == {i \in 1..Len(d) : d[i] # 255}
    IN  IF low = {} THEN <<1>> \o [i \in 1..Len(d) |-> 0]
        ELSE LET k == CHOOSE i \in low : \A j \in low : j <= i
             IN  [i \in 1..Len(d) |-> IF i < k THEN d[i] ELSE IF i = k THEN d[i] + 1 ELSE 0]

NumDec(d) ==
    LET k == CHOOSE i \in 1..Len(d) : d[i] # 0 /\ \A j \in (i + 1)..Len(d) : d[j] = 0
    IN  StripZeros([i \in 1..Len(d) |-> IF i < k THEN d[i] ELSE IF i = k THEN d[i] - 1 ELSE 255])

\* struct.pack("!H" / "!I" / "!Q", n): w bytes, most significant first
Pack(d, w) == [i \in 1..w |-> IF i <= w - Len(d) THEN 0 ELSE d[i - (w - Len(d))]]

\* the values of Python the encoder takes and the decoder gives, each the
\* name of its type and what it holds; an int is its sign and its magnitude, a str its code points, a float its bytes, a
\* set its elements in the order of its iteration, a dict its items in the
\* order of their insertion
PyNone == <<"None", <<>>>>
PyBool(b) == <<"bool", b>>
PyInt(neg, mag) == <<"int", [neg |-> neg, mag |-> mag]>>
PyFloat(bits) == <<"float", bits>>
PyBytes(b) == <<"bytes", b>>
PyByteArray(b) == <<"bytearray", b>>
PyStr(cps) == <<"str", cps>>
PyList(items) == <<"list", items>>
PyTuple(items) == <<"tuple", items>>
PySet(items) == <<"set", items>>
PyFrozenSet(items) == <<"frozenset", items>>
PyDict(items) == <<"dict", items>>
\* _BREAK = object()
BREAK == <<"_BREAK", <<>>>>

\* str.encode("utf-8") for code points below 2048
Utf8Encode(cps) ==
    LET RECURSIVE enc(_)
        enc(s) == IF s = <<>> THEN <<>>
                  ELSE (IF s[1] < 128 THEN <<s[1]>>
                        ELSE <<192 + (s[1] \div 64), 128 + (s[1] % 64)>>) \o enc(Tail(s))
    IN  enc(cps)

\* bytes.decode("utf-8") for one- and two-byte forms: the code points, or
\* <<-1>> for UnicodeDecodeError
Utf8Decode(b) ==
    LET RECURSIVE dec(_)
        dec(s) ==
            IF s = <<>> THEN <<>>
            ELSE IF s[1] < 128
                 THEN LET r == dec(Tail(s)) IN IF r = <<-1>> THEN r ELSE <<s[1]>> \o r
            ELSE IF s[1] >= 194 /\ s[1] <= 223 /\ Len(s) >= 2 /\ s[2] >= 128 /\ s[2] <= 191
                 THEN LET r == dec(SubSeq(s, 3, Len(s)))
                      IN  IF r = <<-1>> THEN r ELSE <<(s[1] - 192) * 64 + (s[2] - 128)>> \o r
            ELSE <<-1>>
    IN  dec(b)

\* what _encode leaves in out when it raises CBOREncodeError
EncodeError == <<-1>>

\* out.extend(a); out.extend(b), unless one of them raised
Extend(a, b) == IF a = EncodeError \/ b = EncodeError THEN EncodeError ELSE a \o b

\* _encode_type_and_len(major, length)
encode_type_and_len(major, length) ==
    IF Len(length) = 0 THEN <<major * 32>>
    ELSE IF Len(length) = 1 /\ length[1] < 24 THEN <<major * 32 + length[1]>>
    ELSE IF Len(length) = 1 THEN <<major * 32 + 24, length[1]>>
    ELSE IF Len(length) <= 2 THEN <<major * 32 + 25>> \o Pack(length, 2)
    ELSE IF Len(length) <= 4 THEN <<major * 32 + 26>> \o Pack(length, 4)
    ELSE IF Len(length) <= 8 THEN <<major * 32 + 27>> \o Pack(length, 8)
    ELSE EncodeError

\* _encode(obj, out): the bytes appended to out
RECURSIVE encode(_)
encode(obj) ==
    LET RECURSIVE all(_)
        all(items) == IF items = <<>> THEN <<>>
                      ELSE Extend(encode(items[1]), all(Tail(items)))
        RECURSIVE pairs(_)
        pairs(items) == IF items = <<>> THEN <<>>
                        ELSE Extend(Extend(encode(items[1][1]), encode(items[1][2])),
                                    pairs(Tail(items)))
    IN  CASE obj[1] = "None" -> <<246>>
          [] obj[1] = "bool" -> IF obj[2] THEN <<245>> ELSE <<244>>
          [] obj[1] = "int" -> IF obj[2].neg
                              THEN encode_type_and_len(1, NumDec(obj[2].mag))
                              ELSE encode_type_and_len(0, obj[2].mag)
          [] obj[1] = "float" -> <<251>> \o obj[2]
          [] obj[1] \in {"bytes", "bytearray"} ->
                Extend(encode_type_and_len(2, ToNum(Len(obj[2]))), obj[2])
          [] obj[1] = "str" ->
                LET b == Utf8Encode(obj[2])
                IN  Extend(encode_type_and_len(3, ToNum(Len(b))), b)
          [] obj[1] \in {"list", "tuple", "set", "frozenset"} ->
                Extend(encode_type_and_len(4, ToNum(Len(obj[2]))), all(obj[2]))
          [] obj[1] = "dict" ->
                Extend(encode_type_and_len(5, ToNum(Len(obj[2]))), pairs(obj[2]))
          [] OTHER -> EncodeError

\* dumps(obj)
dumps(obj) == encode(obj)

\* what a function of the decoder does: it returns a value and the index
\* after it, or it raises
Returns(v, idx) == [exc |-> "", val |-> v, idx |-> idx]
Raises(e) == [exc |-> e, val |-> PyNone, idx |-> 0]

\* _read_n(data, idx, n), n a small number
read_n(data, idx, n) ==
    IF idx + n > Len(data) THEN Raises("CBORDecodeError")
    ELSE Returns(SubSeq(data, idx + 1, idx + n), idx + n)

\* the length None of _read_uint
Indefinite == <<-1>>

\* _read_uint(data, idx, addl): the number as digits
read_uint(data, idx, addl) ==
    LET width == CASE addl = 24 -> 1 [] addl = 25 -> 2 [] addl = 26 -> 4 [] OTHER -> 8
        r == read_n(data, idx, width)
    IN  IF addl < 24 THEN Returns(ToNum(addl), idx)
        ELSE IF addl \in 24..27
        THEN IF r.exc # "" THEN r ELSE Returns(StripZeros(r.val), r.idx)
        ELSE IF addl = 31 THEN Returns(Indefinite, idx)
        ELSE Raises("CBORDecodeError")

\* int(length) as far as it matters to a read or a loop over data: a
\* length of 2^24 or more is more than data can hold
Count(length, data) ==
    IF Len(length) > 3 THEN Len(data) + 1 ELSE Min(FromNum(length), Len(data) + 1)

\* m[k] = v raises TypeError on a key that cannot be hashed
Unhashable(k) == k[1] \in {"list", "dict", "bytearray", "set"}

\* k == j for two keys of a dict: True is 1 and False is 0
KeyEq(k, j) ==
    LET AsInt(x) == IF x[1] = "bool"
                    THEN PyInt(FALSE, IF x[2] THEN <<1>> ELSE <<>>) ELSE x
    IN  AsInt(k) = AsInt(j)

\* m[k] = v on the items of m: the value of an equal key is replaced
SetItem(m, k, v) ==
    IF \E i \in 1..Len(m) : KeyEq(m[i][1], k)
    THEN [i \in 1..Len(m) |-> IF KeyEq(m[i][1], k) THEN <<m[i][1], v>> ELSE m[i]]
    ELSE Append(m, <<k, v>>)

\* _decode(data, idx)
RECURSIVE decode(_, _)
decode(data, idx) ==
    IF idx >= Len(data) THEN Raises("CBORDecodeError")
    ELSE
    LET initial == data[idx + 1]
        major == initial \div 32
        addl == initial % 32
        head == read_uint(data, idx + 1, addl)
        length == head.val
        \* the loops of an indefinite-length byte or text string
        RECURSIVE chunks(_, _, _)
        chunks(at, acc, type) ==
            LET c == decode(data, at)
            IN  IF c.exc # "" THEN c
                ELSE IF c.val[1] = BREAK[1] THEN Returns(<<type, acc>>, c.idx)
                ELSE IF c.val[1] # type THEN Raises("CBORDecodeError")
                ELSE chunks(c.idx, acc \o c.val[2], type)
        \* the loops of an array: n items, or items up to a break
        RECURSIVE items(_, _, _)
        items(at, acc, n) ==
            IF n = 0 THEN Returns(PyList(acc), at)
            ELSE LET c == decode(data, at)
                 IN  IF c.exc # "" THEN c
                     ELSE IF c.val[1] = BREAK[1]
                     THEN IF n < 0 THEN Returns(PyList(acc), c.idx)
                          ELSE Raises("CBORDecodeError")
                     ELSE items(c.idx, Append(acc, c.val), IF n < 0 THEN n ELSE n - 1)
        \* the loops of a map: n pairs, or pairs up to a break
        RECURSIVE pairs(_, _, _)
        pairs(at, acc, n) ==
            IF n = 0 THEN Returns(PyDict(acc), at)
            ELSE LET k == decode(data, at)
                 IN  IF k.exc # "" THEN k
                     ELSE IF n < 0 /\ k.val[1] = BREAK[1] THEN Returns(PyDict(acc), k.idx)
                     ELSE LET v == decode(data, k.idx)
                          IN  IF v.exc # "" THEN v
                              ELSE IF k.val[1] = BREAK[1] \/ v.val[1] = BREAK[1]
                              THEN Raises("CBORDecodeError")
                              ELSE IF Unhashable(k.val) THEN Raises("TypeError")
                              ELSE pairs(v.idx, SetItem(acc, k.val, v.val),
                                         IF n < 0 THEN n ELSE n - 1)
    IN  IF major < 7 /\ head.exc # "" THEN head
        ELSE CASE major = 0 ->
                    IF length = Indefinite THEN Raises("AssertionError")
                    ELSE Returns(PyInt(FALSE, length), head.idx)
               [] major = 1 ->
                    IF length = Indefinite THEN Raises("AssertionError")
                    ELSE Returns(PyInt(TRUE, NumInc(length)), head.idx)
               [] major = 2 ->
                    IF length = Indefinite THEN chunks(head.idx, <<>>, "bytes")
                    ELSE LET b == read_n(data, head.idx, Count(length, data))
                         IN  IF b.exc # "" THEN b ELSE Returns(PyBytes(b.val), b.idx)
               [] major = 3 ->
                    IF length = Indefinite THEN chunks(head.idx, <<>>, "str")
                    ELSE LET b == read_n(data, head.idx, Count(length, data))
                         IN  IF b.exc # "" THEN b
                             ELSE IF Utf8Decode(b.val) = <<-1>> THEN Raises("CBORDecodeError")
                             ELSE Returns(PyStr(Utf8Decode(b.val)), b.idx)
               [] major = 4 ->
                    IF length = Indefinite THEN items(head.idx, <<>>, -1)
                    ELSE items(head.idx, <<>>, Count(length, data))
               [] major = 5 ->
                    IF length = Indefinite THEN pairs(head.idx, <<>>, -1)
                    ELSE pairs(head.idx, <<>>, Count(length, data))
               [] major = 6 -> decode(data, head.idx)
               [] OTHER ->
                    CASE addl = 20 -> Returns(PyBool(FALSE), idx + 1)
                      [] addl = 21 -> Returns(PyBool(TRUE), idx + 1)
                      [] addl \in {22, 23} -> Returns(PyNone, idx + 1)
                      [] addl = 24 ->
                            LET b == read_n(data, idx + 1, 1)
                            IN  IF b.exc # "" THEN b
                                ELSE Returns(PyInt(FALSE, StripZeros(b.val)), b.idx)
                      [] addl \in {25, 26, 27} ->
                            LET b == read_n(data, idx + 1,
                                            IF addl = 25 THEN 2 ELSE IF addl = 26 THEN 4 ELSE 8)
                            IN  IF b.exc # "" THEN b ELSE Returns(PyFloat(b.val), b.idx)
                      [] addl = 31 -> Returns(BREAK, idx + 1)
                      [] OTHER -> Returns(PyInt(FALSE, ToNum(addl)), idx + 1)

\* loads(data) on bytes
loads(data) ==
    LET r == decode(data, 0)
    IN  IF r.exc # "" THEN r
        ELSE IF r.idx # Len(data) THEN Raises("CBORDecodeError")
        ELSE r

\* loads(dumps(obj)); dumps raising leaves nothing to load
RoundTrip(obj) ==
    /\ calc = NoCall
    /\ calc' = [fn |-> "loads(dumps)", arg |-> obj,
                val |-> IF dumps(obj) = EncodeError THEN Raises("CBOREncodeError")
                        ELSE loads(dumps(obj))]
    /\ UNCHANGED beside_calc

\* loads(data)
Loads(data) ==
    /\ calc = NoCall
    /\ calc' = [fn |-> "loads", arg |-> data, val |-> loads(data)]
    /\ UNCHANGED beside_calc

\* the bits a band has in the fingerprints that are enumerated
BandBits == {0, 1}

\* every fingerprint of four such bands
Fingerprints == [1..4 -> SUBSET BandBits]

\* a fingerprint registered beside the first one, or none
SecondPrint == [i \in 1..4 |-> IF i = 4 THEN {} ELSE BandBits]

\* is_duplicate_text on a text with fingerprint sim and a digest not seen,
\* on the engine in which texts with the fingerprints first and, if two is
\* set, SecondPrint were registered
BandedLookup(first, two, sim) ==
    /\ calc = NoCall
    /\ LET E1 == check_and_register(EmptyEngine, sha256(<<"first">>), first).E
           E2 == IF two THEN check_and_register(E1, sha256(<<"second">>), SecondPrint).E
                 ELSE E1
       IN  calc' = [fn |-> "check_and_register", arg |-> <<E2, sim>>,
                    val |-> check_and_register(E2, sha256(<<"new">>), sim)]
    /\ UNCHANGED beside_calc

\* everything but the download call
beside_dl == <<launch, disk, memory, threads, history, analysis, rep, calc>>

\* download(url, config): the locals before the loop
Download(url) ==
    /\ dl.pc \in {"idle", "returned"}
    /\ dl' = [NoDownload EXCEPT !.pc = "attempt", !.url = url, !.attempt = 1,
                                !.backoff_s = backoff_start]
    /\ UNCHANGED beside_dl

\* one pass of the loop body up to the sleep: the request, the decoding,
\* and the return of the decoded response or of the synthetic one
Attempt(outcome, status) ==
    /\ dl.pc = "attempt"
    /\ LET tried == Append(dl.tried, outcome)
       IN  IF outcome = "ok"
           THEN dl' = [dl EXCEPT !.tried = tried, !.pc = "returned",
                                 !.resp = Response(dl.url, status, "")]
           ELSE IF handler(outcome) = "none"
           THEN dl' = [dl EXCEPT !.tried = tried, !.pc = "raised"]
           ELSE IF dl.attempt < max_attempts
           THEN dl' = [dl EXCEPT !.tried = tried, !.last_err = outcome,
                                 !.pc = "sleep"]
           ELSE dl' = [dl EXCEPT !.tried = tried, !.last_err = outcome,
                                 !.pc = "returned",
                                 !.resp = Response(dl.url, 0, outcome)]
    /\ UNCHANGED beside_dl

\* time.sleep(backoff_s); backoff_s = min(backoff_s * 2, 10.0); continue
Backoff ==
    /\ dl.pc = "sleep"
    /\ dl' = [dl EXCEPT !.slept = Append(@, dl.backoff_s),
                        !.backoff_s = Min(2 * @, backoff_cap),
                        !.attempt = @ + 1,
                        !.pc = "attempt"]
    /\ UNCHANGED beside_dl

\* the analytics engine alone: nothing of the crawler but its launcher
AnalyticsInit ==
    /\ store \in {[NoStore EXCEPT !.pkl = f] : f \in FoundFiles}
    /\ NoAnalysis
    /\ dl = NoDownload
    /\ rep = NoReport
    /\ calc = NoCall
    /\ seed_urls = <<U_root>>
    /\ proc = "off"
    /\ restart = FALSE
    /\ had_file = FALSE
    /\ runs = 0
    /\ files = {}
    /\ rows = NoRows
    /\ NoMemory
    /\ NoThreads
    /\ NoHistory

AnalyticsNext ==
    \/ AStart
    \/ \E t \in Threads : ScrapeStep(t)
    \/ SaveStep
    \/ ATick
    \/ ACrash

\* scraper calls by concurrent threads on one Analytics instance, across
\* kills and relaunches of the process
AnalyticsSpec == AnalyticsInit /\ [][AnalyticsNext]_vars

\* what the previous run left in analytics/: one page counted, its URL none
\* of those this run scrapes
PreviousRun == record_url(EmptyEngine, U_pdf).E

LaunchInit ==
    /\ store = [NoStore EXCEPT !.pkl = StateFile(PreviousRun),
                               !.summary = SummaryFile(PreviousRun)]
    /\ NoAnalysis
    /\ dl = NoDownload
    /\ rep = NoReport
    /\ calc = NoCall
    /\ seed_urls = <<U_root>>
    /\ proc = "off"
    /\ restart \in BOOLEAN
    /\ had_file = FALSE
    /\ runs = 0
    /\ files = {}
    /\ rows = NoRows
    /\ NoMemory
    /\ NoThreads
    /\ NoHistory

LaunchNext ==
    \/ Import
    \/ \E tree \in BOOLEAN : RemoveAnalytics(tree)
    \/ KeepAnalytics
    \/ \E t \in Threads : ScrapeStep(t)
    \/ SaveStep
    \/ ATick

\* one launch of the crawler, with or without --restart, over the
\* analytics/ directory of a previous run, and the scraping that follows
LaunchSpec == LaunchInit /\ [][LaunchNext]_vars

\* a second snapshot, of a run that counted two pages and their words
LaterRun ==
    record_words(record_url(PreviousRun, U_b).E, U_b, tokenize(Text12)).E

\* the engines whose snapshots the reporter may find
SavedRuns == {EmptyEngine, PreviousRun, LaterRun}

ReportInit ==
    /\ store \in {[NoStore EXCEPT !.pkl = f, !.summary = g] :
                      f \in FoundFiles \cup {StateFile(E) : E \in SavedRuns},
                      g \in {Absent} \cup {SummaryFile(E) : E \in SavedRuns}}
    /\ NoAnalysis
    /\ dl = NoDownload
    /\ rep = NoReport
    /\ calc = NoCall
    /\ seed_urls = <<U_root>>
    /\ proc = "off"
    /\ restart = FALSE
    /\ had_file = FALSE
    /\ runs = 0
    /\ files = {}
    /\ rows = NoRows
    /\ NoMemory
    /\ NoThreads
    /\ NoHistory

ReportNext ==
    \/ ReportImportFails
    \/ ReportLoad
    \/ ReportWrite
    \/ ReportAtExit
    \/ SaveStep
    \/ ReportExit

\* one run of report.py against whatever analytics/ holds
ReportSpec == ReportInit /\ [][ReportNext]_vars

\* the URLs normalize is tried on: every combination of scheme case,
\* userinfo with and without an empty part, host case, IPv6 literal, port
\* absent, empty, zero, default and not, path, query and fragment
UrlForms ==
    {[scheme |-> sc, user |-> ui[1], pass |-> ui[2], host |-> h, port |-> po,
      path |-> pa, query |-> q, frag |-> f] :
        sc \in {"http", "HTTPS"},
        ui \in {<<"", "">>, <<"u", "">>, <<"u", Blank>>, <<"u", "pw">>, <<Blank, "pw">>},
        h \in {"ics.uci.edu", "ICS.UCI.EDU", "[::A]"},
        po \in {NoPort, EmptyPort, 0, 80, 443, 8080},
        pa \in {"", "/a"},
        q \in {"", Blank, "q"},
        f \in {"", "top"}}

\* the state in which no pure function has been called
PureInit == AnalyticsInit /\ store = NoStore

NormalizeNext == calc = NoCall /\ \E u \in UrlForms : Normalize(u)

\* one call of normalize, on any of the URLs
NormalizeSpec == PureInit /\ [][NormalizeNext]_vars

\* URLs with a host urlsplit rejects
MalformedUrls == {[u EXCEPT !.host = h] : u \in {U_root, U_a, U_b}, h \in MalformedHosts}

IsValidNext == calc = NoCall /\ \E u \in UrlForms \cup RawUrls \cup MalformedUrls : IsValid(u)

\* one call of is_valid, on any of the URLs
IsValidSpec == PureInit /\ [][IsValidNext]_vars

\* the word lists is_duplicate_text is called with
DupTexts == {<<>>, tokenize(Text100), tokenize(Text100n), tokenize(Text100f),
             tokenize(Text12)}

DupNext == \E words \in DupTexts : IsDuplicateTextCall(words)

\* calls of is_duplicate_text one after the other on one engine
DupSpec == PureInit /\ [][DupNext]_vars

\* 2^16, 2^32 and 2^64 as digits
Pow16 == <<1, 0, 0>>
Pow32 == <<1, 0, 0, 0, 0>>
Pow64 == <<1, 0, 0, 0, 0, 0, 0, 0, 0>>

\* the integers on both sides of each width of the header, from -2^64 to
\* 2^64 - 1
CborInts ==
    {PyInt(FALSE, m) : m \in {<<>>, <<1>>, <<23>>, <<24>>, <<255>>, <<1, 0>>,
                              NumDec(Pow16), Pow16, NumDec(Pow32), Pow32,
                              NumDec(Pow64)}}
    \cup {PyInt(TRUE, m) : m \in {<<1>>, <<24>>, <<25>>, <<1, 0>>, <<1, 1>>,
                                   Pow16, NumInc(Pow16), Pow32, NumInc(Pow32),
                                   Pow64}}

\* byte strings on both sides of the one-byte and two-byte headers, text
\* strings of 23 and 24 bytes
CborStrings ==
    {PyBytes([i \in 1..n |-> i % 256]) : n \in {0, 1, 23, 24, 255, 256}}
    \cup {PyByteArray(<<7, 255>>)}
    \cup {PyStr([i \in 1..n |-> IF i % 2 = 1 THEN 233 ELSE 97]) : n \in {0, 1, 2, 15, 16}}

CborScalars == {PyNone, PyBool(FALSE), PyBool(TRUE)} \cup CborInts \cup CborStrings

\* the values that can be keys of a dict
CborKeys ==
    {PyNone, PyBool(TRUE), PyInt(FALSE, <<24>>), PyInt(TRUE, Pow32), PyStr(<<233, 97>>),
     PyBytes(<<1>>), PyTuple(<<PyInt(FALSE, <<1>>), PyInt(FALSE, <<2>>)>>),
     PyFrozenSet(<<PyStr(<<97>>)>>)}

\* the values dumps is tried on
CborValues ==
    CborScalars
    \cup {PyList(<<a, b>>) : a, b \in CborInts}
    \cup {PyList([i \in 1..n |-> PyInt(FALSE, ToNum(i))]) : n \in {0, 23, 24}}
    \cup {PyTuple(<<a, PySet(<<b>>)>>) : a \in CborStrings, b \in CborKeys}
    \cup {PyList(<<PyDict(<<<<k, v>>, <<PyStr(<<>>), PyList(<<k>>)>>>>)>>) :
              k \in CborKeys, v \in CborScalars}

\* what obj is read back as: sets, tuples and frozensets as lists,
\* bytearrays as bytes
RECURSIVE Collapse(_)
Collapse(obj) ==
    CASE obj[1] \in {"list", "tuple", "set", "frozenset"} ->
            PyList([i \in 1..Len(obj[2]) |-> Collapse(obj[2][i])])
      [] obj[1] = "bytearray" -> PyBytes(obj[2])
      [] obj[1] = "dict" ->
            PyDict([i \in 1..Len(obj[2]) |->
                        <<Collapse(obj[2][i][1]), Collapse(obj[2][i][2])>>])
      [] OTHER -> obj

RoundTripNext == calc = NoCall /\ \E obj \in CborValues : RoundTrip(obj)

\* one call of loads(dumps(obj)), on any of the values
RoundTripSpec == PureInit /\ [][RoundTripNext]_vars

\* the longest input of loads
MaxCborLen == 3

\* initial bytes of every major type, definite, indefinite and reserved,
\* and the break code
CborAlphabet == {0, 24, 28, 31, 65, 95, 97, 128, 129, 159, 161, 191, 192, 246, 252, 255}

CborInputs == UNION {[1..n -> CborAlphabet] : n \in 0..MaxCborLen}

LoadsNext == calc = NoCall /\ \E data \in CborInputs : Loads(data)

\* one call of loads, on any of the inputs
LoadsSpec == PureInit /\ [][LoadsNext]_vars

BandNext ==
    calc = NoCall /\ \E first, sim \in Fingerprints, two \in BOOLEAN :
                        BandedLookup(first, two, sim)

\* one lookup of a fingerprint among one or two registered ones
BandSpec == PureInit /\ [][BandNext]_vars

\* the URLs download is called with
FetchUrls == {U_root, U_b}

DownloadInit == AnalyticsInit /\ store = NoStore

DownloadNext ==
    \/ \E u \in FetchUrls : Download(u)
    \/ \E o \in Outcomes, st \in ServerStatuses : Attempt(o, st)
    \/ Backoff

\* download called again and again, each attempt ending in any way it can
DownloadSpec == DownloadInit /\ [][DownloadNext]_vars

(***************************************************************************)
(* Properties.                                                             *)
(***************************************************************************)
Range(q) == {q[i] : i \in 1..Len(q)}

\* every worker has got null from get_tbd_url and left its loop
Halted == proc = "up" /\ \A w \in Workers : wpc[w] = "done"

CompletedCount == Cardinality({h \in DOMAIN rows : rows[h].completed = 1})

\* the distinct canonical forms of the configured seeds
CanonSeeds == {normalize(urldefrag(seed_urls[i])) : i \in 1..Len(seed_urls)}

\* C2: whenever the frontier is closed, pending is empty and nothing is in
\* progress.
C2_ClosedMeansDrained ==
    closed => pending = <<>> /\ in_progress = 0

\* a frontier that closed after its workers crawled three URLs
C2_Witness ==
    /\ closed
    /\ Cardinality({u \in CanonUrls : returned[u] > 0}) >= 3
    /\ \E w \in Workers : wpc[w] = "get"

\* C3: within one run get_tbd_url returns no URL twice, and once the
\* frontier is closed every URL that was appended to pending has been
\* returned to a caller.
C3_EachUrlOnce ==
    /\ \A u \in CanonUrls : returned[u] <= 1
    /\ closed => \A u \in enqueued : returned[u] = 1

\* a closed frontier, three URLs enqueued in the run, each returned
C3_Witness ==
    /\ closed
    /\ Cardinality(enqueued) >= 3
    /\ \A u \in enqueued : returned[u] = 1

\* C9: while the frontier is up, |pending| + in_progress + the number of
\* completed rows is at most |seen|.
C9_Accounting ==
    proc = "up" => Len(pending) + in_progress + CompletedCount <= Cardinality(seen)

\* a resumed run with URLs pending, in progress and completed, and a seen
\* hash that is none of them
C9_Witness ==
    /\ proc = "up" /\ ~restart /\ had_file
    /\ pending # <<>> /\ in_progress > 0 /\ CompletedCount > 0
    /\ Len(pending) + in_progress + CompletedCount < Cardinality(seen)

\* C6: for every host, the time between two successive grants of
\* wait_for_politeness is at least time_delay.
C6_Politeness ==
    \A h \in Hosts : grant_gap[h] >= time_delay

\* two URLs of one host have both been granted, the second after a sleep
C6_Witness ==
    /\ returned[normalize(U_root)] = 1 /\ returned[normalize(U_a)] = 1
    /\ \A w \in Workers : wpc[w] \in {"fetch", "add", "mark"}
    /\ \A w \in Workers : wurl[w].host = "ics.uci.edu"


\* the canonical form of l is that of a URL admitted in this or an earlier run
Admitted(l) ==
    \E h \in seen : h \in DOMAIN rows /\ rows[h].url = normalize(urldefrag(l))

\* C4: add_url of a URL whose canonical form is that of a URL already
\* admitted leaves |pending|, seen and the number of rows as they were and
\* wakes no waiter.
C4_AddUrlIdempotent ==
    [][\A w \in Workers : \A l \in wlinks[w] :
          (Admitted(l) /\ AddLink(w, l)) =>
              /\ Len(pending') = Len(pending)
              /\ seen' = seen
              /\ Cardinality(DOMAIN rows') = Cardinality(DOMAIN rows)
              /\ Waiters(wpc') = Waiters(wpc)]_vars

\* a worker has added HTTPS://ICS.UCI.EDU:443/, scraped from
\* https://ics.uci.edu/, while another worker waits
C4_Witness ==
    \E w, v \in Workers :
        /\ wpc[w] = "add" /\ wurl[w] = normalize(U_root)
        /\ wlinks[w] = {urldefrag(U_aF)}
        /\ wpc[v] = "waiting"
        /\ Len(pending) = 0 /\ Cardinality(seen) = 1

\* C5: once closed is true it stays true, every later get_tbd_url returns
\* null, and no later call changes seen, pending or the store.
C5_ClosedLatch ==
    [][(closed /\ proc' = "up") =>
          /\ closed'
          /\ seen' = seen /\ pending' = pending /\ rows' = rows
          /\ \A w \in Workers :
                GetTbdUrl(w) => wpc'[w] = "done" /\ returned' = returned]_vars

\* every worker got null from a closed frontier that had work
C5_Witness ==
    /\ Halted /\ closed
    /\ Cardinality(seen) >= 2
    /\ \E u \in ExtUrls : ~Admitted(u)

\* C7: constructed without restart on an existing store, the frontier has
\* seen the hashes of all rows; if rows existed, pending holds the URL of
\* each row with completed = 0 that passes is_valid, once, and no seed is
\* added; if none existed, the seeds are added; and the run dispatches no
\* URL whose row is completed.
C7_Resume ==
    [][/\ (proc = "ctor_load" /\ proc' = "up" /\ ~restart /\ had_file) =>
            /\ seen' = DOMAIN rows'
            /\ IF DOMAIN rows # {}
               THEN LET tbd == {rows[h].url : h \in
                                  {k \in DOMAIN rows : rows[k].completed = 0
                                                       /\ is_valid(rows[k].url)}}
                    IN  /\ rows' = rows
                        /\ Range(pending') = tbd
                        /\ Len(pending') = Cardinality(tbd)
               ELSE /\ Range(pending') = CanonSeeds
                    /\ Len(pending') = Cardinality(CanonSeeds)
                    /\ {rows'[h].url : h \in DOMAIN rows'} = CanonSeeds
       /\ (proc = "up" /\ ~restart /\ had_file) =>
            \A u \in CanonUrls :
                returned'[u] > returned[u] =>
                    /\ get_urlhash(u) \in DOMAIN rows
                    /\ rows[get_urlhash(u)].completed = 0]_vars

\* a frontier just loaded from a store that holds a completed row, a row
\* that fails is_valid and rows to be downloaded
C7_Witness ==
    /\ proc = "up" /\ ~restart /\ had_file
    /\ in_progress = 0 /\ \A u \in CanonUrls : returned[u] = 0
    /\ Len(pending) >= 2
    /\ \E h \in DOMAIN rows : rows[h].completed = 1
    /\ \E h \in DOMAIN rows : rows[h].completed = 0 /\ ~is_valid(rows[h].url)

\* C8: constructed with restart on an existing save file, the frontier
\* opens the store with the file and its sidecars removed, and ends with
\* rows, seen and pending holding the distinct canonical seeds and nothing
\* else.
C8_RestartWipes ==
    /\ []((proc = "ctor_open" /\ restart /\ had_file) =>
             files = {} /\ rows = NoRows)
    /\ [][(proc = "ctor_load" /\ proc' = "up" /\ restart /\ had_file) =>
             /\ {rows'[h].url : h \in DOMAIN rows'} = CanonSeeds
             /\ \A h \in DOMAIN rows' : rows'[h].completed = 0
             /\ seen' = DOMAIN rows'
             /\ Cardinality(seen') = Cardinality(CanonSeeds)
             /\ Range(pending') = CanonSeeds
             /\ Len(pending') = Cardinality(CanonSeeds)]_vars

\* a frontier just constructed with restart over the store of an earlier run
C8_Witness ==
    /\ proc = "up" /\ restart /\ had_file
    /\ in_progress = 0 /\ \A u \in CanonUrls : returned[u] = 0
    /\ Len(pending) = Cardinality(CanonSeeds)
    /\ Cardinality(CanonSeeds) = 2

\* C10: every URL appended to pending in a run has its hash in seen and a
\* row in the store, and no step of a run removes a row.
C10_EnqueuedIsRecorded ==
    /\ [](proc = "up" =>
             \A u \in enqueued :
                 /\ get_urlhash(u) \in seen
                 /\ get_urlhash(u) \in DOMAIN rows
                 /\ rows[get_urlhash(u)].url = u)
    /\ [][(proc = "up" /\ proc' = "up") => DOMAIN rows \subseteq DOMAIN rows']_vars

\* a resumed run whose pending got URLs from the store and from add_url
C10_Witness ==
    /\ proc = "up" /\ ~restart /\ had_file
    /\ Cardinality(enqueued) >= 3
    /\ \E u \in enqueued : rows[get_urlhash(u)].completed = 1


\* the frontier is drained, and every hash in seen has a completed row
FinalAllCompleted ==
    /\ closed /\ in_progress = 0 /\ pending = <<>>
    /\ \A h \in seen : h \in DOMAIN rows /\ rows[h].completed = 1

\* the same, but for the rows an earlier run left with completed = 0 whose
\* URL fails is_valid: the constructor puts their hashes in seen and does
\* not enqueue them
FinalCompletedOrSkipped ==
    /\ closed /\ in_progress = 0 /\ pending = <<>>
    /\ \A h \in seen :
          /\ h \in DOMAIN rows
          /\ \/ rows[h].completed = 1
             \/ /\ ~restart /\ had_file
                /\ ~is_valid(rows[h].url)
                /\ rows[h].url \notin enqueued

\* C1 as stated: when all workers have halted the frontier is closed and
\* drained and every URL in seen has completed = 1.
C1_Original == Halted => FinalAllCompleted

\* C1, amended: every run of the workers ends (all workers halt, unless the
\* process is killed first), and when all have halted the frontier is
\* closed and drained and every URL in seen has completed = 1, except the
\* rows of an earlier run that a resumed run skips because they fail is_valid.
C1_Termination ==
    /\ [](Halted => FinalCompletedOrSkipped)
    /\ (proc = "up") ~> (Halted \/ proc = "off")

\* a resumed run has halted after crawling three URLs, one row left skipped
C1_Witness ==
    /\ Halted /\ ~restart /\ had_file
    /\ Cardinality(enqueued) >= 3
    /\ \E h \in seen : rows[h].completed = 0


Holders == {w \in Workers : wurl[w] # EmptyUrl}

\* C12: every URL get_tbd_url returns is marked complete exactly once,
\* whatever the outcome of fetch and scrape: in_progress counts the workers
\* holding a URL, every holder is on its way to mark_url_complete, and a
\* worker lets go of its URL only by mark_url_complete, which sets the
\* URL's row to completed and decrements in_progress.
C12_FailureStillMarks ==
    /\ [](proc = "up" =>
            /\ in_progress = Cardinality(Holders)
            /\ \A w \in Workers :
                  w \in Holders <=> wpc[w] \in {"polite", "fetch", "add", "mark"})
    /\ [][\A w \in Workers :
            (w \in Holders /\ wurl'[w] # wurl[w] /\ proc' = "up") =>
                /\ MarkUrlComplete(w)
                /\ rows'[get_urlhash(wurl[w])].completed = 1
                /\ in_progress' = in_progress - 1]_vars

\* one worker's scrape raised, the other's download failed (no link came
\* of its URL), and both are at mark_url_complete, their URLs in progress
C12_Witness ==
    /\ proc = "up" /\ in_progress = 2
    /\ \E w, v \in Workers :
          /\ wpc[w] = "mark" /\ wfail[w] = "ValueError"
          /\ wpc[v] = "mark" /\ wfail[v] = ""
          /\ \A l \in scraper(wurl[v], "page") : ~Admitted(l)

\* C13 as stated: record_url(u) returns false and changes neither
\* unique_url_hashes nor subdomain_counts whenever a URL with the canonical
\* form of u (fragment dropped, scheme and host lowercased, default port
\* dropped) was recorded before, and otherwise returns true and adds a hash
C13_Original ==
    [][\A t \in Threads :
          RecordUrl(t) =>
              LET u == page_url(tpage[t])
              IN  IF \E p \in Pages :
                        /\ normalize(page_url(p)) = normalize(u)
                        /\ seen_key(urldefrag(page_url(p))) \in engine.unique
                  THEN /\ ~tnew'[t]
                       /\ engine'.unique = engine.unique
                       /\ engine'.subdomains = engine.subdomains
                  ELSE /\ tnew'[t]
                       /\ Cardinality(engine'.unique) = Cardinality(engine.unique) + 1]_vars

\* C13: record_url counts a page once per URL with the fragment removed:
\* for a non-empty u it returns false and changes neither unique_url_hashes
\* nor subdomain_counts when the hash of the defragmented u is recorded, and
\* otherwise adds that hash, increments subdomain_counts[host] for the
\* lowercased host iff it ends with .uci.edu, and returns true
C13_OncePerDefragmentedUrl ==
    [][\A t \in Threads :
          (RecordUrl(t) /\ page_url(tpage[t]) # EmptyUrl) =>
              LET u == page_url(tpage[t])
                  h == sha256(urldefrag(u))
                  host == Lower(u.host)
              IN  IF h \in engine.unique
                  THEN /\ ~tnew'[t]
                       /\ engine'.unique = engine.unique
                       /\ engine'.subdomains = engine.subdomains
                  ELSE /\ tnew'[t]
                       /\ engine'.unique = engine.unique \cup {h}
                       /\ IF "uci.edu" \in HostSuffixes(host) \ {host}
                          THEN engine'.subdomains =
                                   Bump(engine.subdomains, host, 1)
                          ELSE engine'.subdomains = engine.subdomains]_vars

\* record_url has returned true for HTTPS://ICS.UCI.EDU:443/#top with
\* https://ics.uci.edu/ already counted
C13_Witness ==
    \E t \in Threads :
        /\ tpc[t] = "heuristics"
        /\ tpage[t] = PageVariant
        /\ tnew[t]
        /\ engine.unique = {seen_key(U_root), seen_key(urldefrag(U_rootV))}
        /\ engine.subdomains = Bump(Bump(<<>>, "ics.uci.edu", 1), "ics.uci.edu", 1)

\* C14 as stated: with the single seed https://ics.uci.edu/ and nothing
\* recorded before, scraping the page whose body is the anchors /a and
\* /a#frag with the texts x and y records exactly one unique page, sets
\* subdomain_counts to {ics.uci.edu: 1} and enqueues exactly one additional
\* URL, https://ics.uci.edu/a
C14_Original ==
    \A t \in Threads :
        ( /\ seed_urls = <<U_root>>
          /\ scrapes = 1 /\ tpage[t] = PageSeed /\ tres[t].returned
          /\ engine.unique \subseteq {seen_key(page_url(PageSeed))} ) =>
            /\ Cardinality(engine.unique) = 1
            /\ engine.subdomains = ("ics.uci.edu" :> 1)
            /\ additional_urls(seed_urls, tres[t].links) = {U_a}

\* C14: in that scenario the page has no token of two letters, so it is
\* skipped as low-information: one unique page is recorded,
\* subdomain_counts is {ics.uci.edu: 1}, skipped_lowinfo is 1, the scrape
\* returns no link and no additional URL is enqueued
C14_SeedOnly ==
    \A t \in Threads :
        ( /\ seed_urls = <<U_root>>
          /\ scrapes = 1 /\ tpage[t] = PageSeed /\ tres[t].returned
          /\ engine.unique \subseteq {seen_key(page_url(PageSeed))} ) =>
            /\ Cardinality(engine.unique) = 1
            /\ engine.subdomains = ("ics.uci.edu" :> 1)
            /\ engine.lowinfo = 1
            /\ tokenize(PageSeed.text) = <<>>
            /\ tres[t].links = {}
            /\ additional_urls(seed_urls, tres[t].links) = {}

\* the seed page has been scraped, first and alone, by an engine that
\* started empty
C14_Witness ==
    \E t \in Threads :
        /\ seed_urls = <<U_root>>
        /\ scrapes = 1 /\ tpage[t] = PageSeed /\ tres[t].returned
        /\ engine.unique = {seen_key(U_root)}
        /\ valid_links(PageSeed) = {U_a}

\* C15: a parsed page with more than 1000 outlinks, fewer than 10 tokens, or
\* more than 200 outlinks and words/(outlinks+1) < 0.05 is counted by
\* record_url (one more unique page iff its URL was not recorded), then
\* skipped: skipped_lowinfo increases by exactly 1, the scrape returns no
\* links, and no step of the scrape changes the word statistics, the
\* duplicate fingerprints or the duplicate counters
C15_LowInfoSkip ==
    [][\A t \in Threads :
          LET p == tpage[t]
              words == Len(tokenize(p.text))
              links == outlink_count(p)
              h == seen_key(page_url(p))
              low == \/ links > 1000
                     \/ words < 10
                     \/ links > 200 /\ 20 * words < links + 1
          IN  (tpc[t] # "idle" /\ tpc'[t] # tpc[t] /\ aproc' = "up" /\ p.parsed /\ low) =>
                  /\ engine'.word_freq = engine.word_freq
                  /\ engine'.longest = engine.longest
                  /\ engine'.exact = engine.exact
                  /\ engine'.buckets = engine.buckets
                  /\ engine'.dup_exact = engine.dup_exact
                  /\ engine'.dup_near = engine.dup_near
                  /\ CASE tpc[t] = "record_url" ->
                              /\ tpc'[t] = "heuristics"
                              /\ engine'.unique = engine.unique \cup {h}
                              /\ tnew'[t] = (h \notin engine.unique)
                              /\ engine'.lowinfo = engine.lowinfo
                       [] tpc[t] = "heuristics" ->
                              /\ tpc'[t] = "lowinfo"
                              /\ engine' = engine
                              /\ ~tres'[t].returned
                       [] tpc[t] = "lowinfo" ->
                              /\ tpc'[t] = "idle"
                              /\ engine'.lowinfo = engine.lowinfo + 1
                              /\ engine'.unique = engine.unique
                              /\ tres'[t] = Result({})
                       [] OTHER -> FALSE]_vars

\* a link directory whose URL was counted before has been skipped, with
\* the word statistics of the earlier page in place
C15_Witness ==
    \E t \in Threads :
        /\ tpage[t] = PageDir /\ tres[t] = Result({})
        /\ engine.lowinfo = 1
        /\ engine.unique = {seen_key(U_a)}
        /\ engine.longest = [url |-> U_a, words |-> 100]
        /\ valid_links(PageDir) # {}

\* C16: is_duplicate_text is called only for a newly counted URL with at
\* least 50 words; on a text whose digest is not registered and that is near
\* no registered text it returns false and registers the digest; on a text
\* whose digest is registered it returns true, duplicate_exact grows by 1,
\* the scrape returns no links and record_words is not called.  So when two
\* distinct, previously unrecorded URLs carry the same text and nothing else
\* was counted, duplicate_exact ends at 1, word_freq and longest_page
\* reflect only the URL whose call came first, the other scrape returns no
\* links, and both URLs are counted
C16_ExactDuplicate ==
    /\ [][\A t \in Threads :
             IsDuplicateText(t) =>
                 LET words == tokenize(tpage[t].text)
                     digest == sha256(words)
                     sim == simhash(words)
                 IN  /\ Len(words) >= 50 /\ tnew[t]
                     /\ seen_key(page_url(tpage[t])) \in engine.unique
                     /\ engine'.unique = engine.unique
                     /\ IF digest \in engine.exact
                        THEN /\ tpc'[t] = "idle"
                             /\ tres'[t] = Result({})
                             /\ engine'.dup_exact = engine.dup_exact + 1
                             /\ engine'.exact = engine.exact
                             /\ engine'.word_freq = engine.word_freq
                             /\ engine'.longest = engine.longest
                        ELSE (\A b \in engine.buckets : bit_count_xor(sim, b[2]) > 3) =>
                                 /\ tpc'[t] = "record_words"
                                 /\ ~tres'[t].returned
                                 /\ engine'.exact = engine.exact \cup {digest}
                                 /\ engine'.dup_exact = engine.dup_exact
                                 /\ engine'.dup_near = engine.dup_near]_vars
    /\ [](\A t, u \in Threads :
             LET p == tpage[t]
                 q == tpage[u]
                 words == tokenize(p.text)
             IN  ( /\ t # u /\ p.parsed /\ q.parsed
                   /\ p.text = q.text /\ page_url(p) # page_url(q)
                   /\ tres[t].returned /\ tres[u].returned
                   /\ tnew[t] /\ tnew[u]
                   /\ Len(words) >= 50
                   /\ engine.unique = {seen_key(page_url(p)), seen_key(page_url(q))} ) =>
                     /\ engine.dup_exact = 1 /\ engine.dup_near = 0
                     /\ engine.exact = {sha256(words)}
                     /\ DOMAIN engine.word_freq = {words[i] : i \in 1..Len(words)}
                     /\ \A w \in DOMAIN engine.word_freq :
                            engine.word_freq[w] =
                                Cardinality({i \in 1..Len(words) : words[i] = w})
                     /\ \/ /\ engine.longest = [url |-> page_url(p), words |-> Len(words)]
                           /\ tres[t].links = valid_links(p)
                           /\ tres[u].links = {}
                        \/ /\ engine.longest = [url |-> page_url(q), words |-> Len(words)]
                           /\ tres[u].links = valid_links(q)
                           /\ tres[t].links = {})

\* the 100-word text has been scraped under /a and then under /b: the
\* second scrape found the digest registered and returned no links
C16_Witness ==
    \E t, u \in Threads :
        /\ tpage[t] = PageA /\ tpage[u] = PageB
        /\ tnew[t] /\ tnew[u]
        /\ tres[t] = Result(valid_links(PageA)) /\ valid_links(PageA) # {}
        /\ tres[u] = Result({})
        /\ engine.unique = {seen_key(U_a), seen_key(U_b)}
        /\ engine.dup_exact = 1
        /\ engine.longest = [url |-> U_a, words |-> 100]

\* C17 as stated: when state.pkl is missing, unparseable, or a snapshot
\* with a field of the wrong shape, the engine construction leaves every
\* field as __init__ set it: no field of the snapshot is adopted
C17_LoadAllOrNothing ==
    [][(AStart /\ ~(store.pkl.kind = "dict" /\ store.pkl.bad = "")) =>
           engine' = EmptyEngine]_vars

\* C18: at every instant, a crash at any step of a checkpoint included,
\* state.pkl and summary.json are never partially written: each is what it
\* was before the first launch or one complete snapshot, put in place by
\* the rename of its .tmp sibling while the analytics lock is held and
\* equal to the engine's state under that lock
C18_CheckpointAtomic ==
    /\ [](/\ store.pkl # Torn /\ store.summary # Torn
          /\ store.pkl \in FoundFiles \/ (store.pkl.kind = "dict" /\ store.pkl.bad = "")
          /\ store.summary = Absent \/ store.summary.kind = "json")
    /\ [][store.pkl' # store.pkl =>
             /\ lock \in Threads /\ lock' = lock
             /\ store.pkl_tmp = StateFile(engine)
             /\ store.pkl' = StateFile(engine)
             /\ store.pkl_tmp' = Absent]_vars
    /\ [][store.summary' # store.summary =>
             /\ lock \in Threads
             /\ store.summary_tmp = SummaryFile(engine)
             /\ store.summary' = SummaryFile(engine)
             /\ store.pkl = StateFile(engine)
             /\ store.summary_tmp' = Absent]_vars

\* the process was killed while a second checkpoint was writing
\* state.pkl.tmp: the first checkpoint's files are in place, whole
C18_Witness ==
    /\ aproc = "off"
    /\ store.pkl_tmp = Torn
    /\ store.pkl.kind = "dict" /\ store.pkl.bad = ""
    /\ store.pkl.state.unique # {}
    /\ store.summary.kind = "json" /\ store.summary.unique_pages = 1

\* C19 as stated: every analytics call that changes the engine's state -
\* record_url of a new URL, record_words, mark_lowinfo_skipped, and
\* is_duplicate_text in its duplicate and non-duplicate outcomes - starts a
\* checkpoint under the lock when the dirty counter has reached
\* save_every_pages or save_every_seconds have passed since the last save,
\* and the checkpoint ends with the snapshot in place and the counter reset
C19_CheckpointTrigger ==
    /\ [][\A t \in Threads :
             ( /\ RecordUrl(t) \/ MarkLowinfoSkipped(t) \/ IsDuplicateText(t)
                     \/ RecordWords(t)
               /\ Snapshot(engine') # Snapshot(engine)
               /\ \/ engine'.dirty >= save_every_pages
                  \/ engine.since_save >= save_every_seconds ) =>
                 /\ saving' = "pkl_open" /\ lock' = t
                 /\ engine'.since_save = 0]_vars
    /\ [][SummaryReplace =>
             /\ store'.pkl = StateFile(engine)
             /\ store'.summary = SummaryFile(engine)
             /\ engine'.dirty = 0
             /\ lock' = NoThread]_vars

\* C20: download makes at most 3 attempts and never raises; a successful
\* attempt is the last one and its decoded response is what is returned;
\* the sleeps are 1 s after the first failure and 2 s after the second, none
\* after the third; after 3 failures of any kind the response returned has
\* status 0 and the last failure as its error
C20_RetryProtocol ==
    /\ dl.pc # "raised"
    /\ dl.attempt <= 3 /\ Len(dl.tried) <= 3
    /\ \A i \in 1..(Len(dl.tried) - 1) : dl.tried[i] # "ok"
    /\ dl.slept \in {<<>>, <<1>>, <<1, 2>>}
    /\ dl.pc = "attempt" => Len(dl.slept) = Len(dl.tried)
    /\ dl.pc = "sleep" => Len(dl.slept) = Len(dl.tried) - 1
    /\ dl.pc = "returned" =>
           /\ Len(dl.slept) = Len(dl.tried) - 1
           /\ IF dl.tried[Len(dl.tried)] = "ok"
              THEN /\ dl.resp.url = dl.url
                   /\ dl.resp.status \in ServerStatuses
                   /\ dl.resp.error = ""
              ELSE /\ Len(dl.tried) = 3
                   /\ dl.resp = [url |-> dl.url, status |-> 0,
                                  error |-> dl.tried[3]]
                   /\ dl.resp.error # ""

\* three attempts have failed, each in its own way, and the synthetic
\* response is returned after sleeps of 1 s and 2 s
C20_Witness ==
    /\ dl.pc = "returned"
    /\ dl.tried = <<"TimeoutError", "empty_body", "KeyError">>
    /\ dl.slept = <<1, 2>>
    /\ dl.resp.status = 0

\* C21 as stated: on a launch with --restart the analytics of the previous
\* run are removed before the engine is constructed, so once the run is
\* under way no page the previous run counted is in memory or in a
\* state.pkl written since
C21_RestartStartsEmpty ==
    (restart /\ aproc = "up") =>
        /\ engine.unique \cap PreviousRun.unique = {}
        /\ store.pkl.kind = "dict" => store.pkl.state.unique \cap PreviousRun.unique = {}

\* C22 as stated: no step of the reporter changes or creates state.pkl or
\* summary.json, whatever snapshot it runs against; it writes the report
\* file only
C22_ReporterReadOnly ==
    [][store'.pkl = store.pkl /\ store'.summary = store.summary]_vars

\* C23 as stated: the reporter exits with 0 only when the snapshot was
\* loaded and the report written, and with 2, writing no report, whenever
\* the snapshot is missing or cannot be loaded
C23_ReporterExitStatus ==
    [][rep'.code # rep.code =>
          LET loadable == store.pkl.kind = "dict" /\ store.pkl.bad = ""
          IN  /\ rep'.code = 0 => loadable /\ rep'.out # Absent
              /\ ~loadable => rep'.code = 2 /\ rep'.out = Absent]_vars

\* C24: normalize is idempotent: normalize(normalize(U)) = normalize(U) for
\* every U, and so get_urlhash gives U and normalize(U) the same hash
C24_NormalizeIdempotent ==
    calc.fn = "normalize" =>
        /\ calc.val.twice = calc.val.once
        /\ get_urlhash(calc.val.once) = get_urlhash(calc.arg)

\* normalize has been called on a URL with upper-case scheme and host, an
\* empty password, the default port, a query and a fragment, and has
\* changed it
C24_Witness ==
    /\ calc.fn = "normalize"
    /\ calc.arg = [scheme |-> "HTTPS", user |-> "u", pass |-> Blank,
                   host |-> "ICS.UCI.EDU", port |-> 443, path |-> "/a",
                   query |-> "q", frag |-> "top"]
    /\ calc.val.once = [scheme |-> "https", user |-> "u", pass |-> "",
                        host |-> "ics.uci.edu", port |-> NoPort, path |-> "/a",
                        query |-> "q", frag |-> ""]

\* C29: normalize changes nothing but the case of scheme and host, a
\* default port and the fragment: a port that is not the default of the
\* scheme, port 0 included, is kept, and userinfo, path and query are the
\* same in U and normalize(U)
C29_NormalizePreserves ==
    calc.fn = "normalize" =>
        LET a == calc.arg
            v == calc.val.once
            is_default_port == \/ (Lower(a.scheme) = "http" /\ a.port = 80)
                               \/ (Lower(a.scheme) = "https" /\ a.port = 443)
        IN  /\ v.scheme = Lower(a.scheme)
            /\ Lower(Unbracketed(v.host)) = Lower(Unbracketed(a.host))
            /\ (a.port >= 0 /\ ~is_default_port) => v.port = a.port
            /\ v.user = a.user /\ v.pass = a.pass
            /\ v.path = a.path /\ v.query = a.query

\* C25: is_valid is total: it returns for every URL, and returns False for
\* a URL whose parsing raises, whatever the exception
C25_IsValidTotal ==
    calc.fn = "is_valid" =>
        /\ calc.val[1] = "return"
        /\ urlparse_error(calc.arg) # "" => calc.val[2] = FALSE

\* C28: scraping a status-200 page whose HTML no parser can parse returns
\* no links and records no words, and leaves the page's URL among the
\* unique pages
C28_ParseFailureCounted ==
    [][\A t \in Threads :
          BeginScrape(t, PageBroken) =>
              /\ tres'[t] = Result({})
              /\ engine'.word_freq = engine.word_freq
              /\ seen_key(page_url(PageBroken)) \in engine'.unique]_vars

C26_RoundTrip ==
    calc.fn = "loads(dumps)" =>
        /\ calc.val.exc = ""
        /\ calc.val.val = Collapse(calc.arg)

\* C27: loads raises CBORDecodeError, and nothing else, on an input that is
\* not one well-formed value: on no data, on bytes after the value, on a
\* reserved additional-info value, on the indefinite-length marker on an
\* integer and on a break code that is in no indefinite-length container;
\* what it returns is never the sentinel _BREAK
C27_DecodeErrors ==
    calc.fn = "loads" =>
        LET data == calc.arg
            r == calc.val
            first == decode(data, 0)
        IN  /\ r.exc \in {"", "CBORDecodeError"}
            /\ r.exc = "" => r.val[1] # BREAK[1]
            /\ data = <<>> => r.exc = "CBORDecodeError"
            /\ (first.exc = "" /\ first.idx < Len(data)) => r.exc = "CBORDecodeError"
            /\ (data # <<>> /\ data[1] % 32 \in 28..30) => r.exc = "CBORDecodeError"
            /\ (data # <<>> /\ data[1] \in {31, 63}) => r.exc = "CBORDecodeError"
            /\ (data # <<>> /\ data[1] = 255) => r.exc = "CBORDecodeError"

\* C31: for a text that is no exact duplicate, is_duplicate_text returns
\* true exactly when some registered fingerprint, whichever band keys it is
\* stored under, is at most near_threshold_bits = 3 bits away from the
\* fingerprint of the text
C31_BandingComplete ==
    calc.fn = "check_and_register" =>
        LET E == calc.arg[1]
            sim == calc.arg[2]
            registered == {b[2] : b \in E.buckets}
        IN  calc.val.ret <=> \E fp \in registered : bit_count_xor(sim, fp) <= 3

\* a registered fingerprint is three bits away from the new one, one bit
\* in each of the first three bands, and is found through the fourth
C31_Witness ==
    /\ calc.fn = "check_and_register"
    /\ calc.arg[2] = <<{0}, {0}, {0}, {1}>>
    /\ {b[2] : b \in calc.arg[1].buckets} = {<<{}, {}, {}, {1}>>}
    /\ calc.val.ret
    /\ calc.val.E.dup_near = 1

\* C32: while a worker holds a URL, between the get_tbd_url that returned it
\* and its mark_url_complete, the frontier is not closed; so an add_url
\* the worker makes for a link whose hash is not in seen puts the hash in
\* seen, inserts the row with completed = 0 and appends the canonical URL
\* to pending, whatever the other workers do
C32_NoLinkDropped ==
    /\ []((proc = "up" /\ Holders # {}) => ~closed)
    /\ [][\A w \in Workers : \A l \in wlinks[w] :
             LET u == normalize(urldefrag(l))
                 h == get_urlhash(l)
             IN  (AddLink(w, l) /\ h \notin seen) =>
                     /\ w \in Holders
                     /\ seen' = seen \cup {h}
                     /\ h \in DOMAIN rows' /\ rows'[h] = [url |-> u, completed |-> 0]
                     /\ pending' = Append(pending, u)]_vars

\* one worker has marked its URL complete while the other, still holding
\* its own, has had a new link admitted and has more to add
C32_Witness ==
    /\ proc = "up" /\ ~closed
    /\ \E w, v \in Workers :
          /\ w # v /\ wpc[w] = "add" /\ wurl[w] # EmptyUrl /\ wlinks[w] # {}
          /\ wurl[v] = EmptyUrl
          /\ \E h \in DOMAIN rows : rows[h].completed = 1
          /\ \E i \in 1..Len(pending) :
                pending[i] \in {normalize(urldefrag(l)) : l \in scraper(wurl[w], "page")}

\* C33: a crash at any step loses and repeats no admitted work.  Every URL
\* that is pending or held by a worker has a row with completed = 0; a
\* crash leaves the store as it is, and so does a launch without restart up
\* to the loading; the loading of a store that has rows puts into pending
\* exactly the URLs of the rows with completed = 0 that pass is_valid, those
\* that were in progress at the crash among them, and none whose row is
\* completed; and a run without restart dispatches no URL whose row is
\* completed
C33_CrashRestart ==
    /\ [](proc = "up" =>
             \A u \in Range(pending) \cup {wurl[w] : w \in Holders} :
                 /\ get_urlhash(u) \in DOMAIN rows
                 /\ rows[get_urlhash(u)] = [url |-> u, completed |-> 0])
    /\ [][Crash => (rows' = rows /\ files' = files)]_vars
    /\ [][(~restart' /\ proc' \in {"ctor_files", "ctor_open", "ctor_load"}) =>
             rows' = rows]_vars
    /\ [][(proc = "ctor_load" /\ proc' = "up" /\ ~restart /\ DOMAIN rows # {}) =>
             /\ rows' = rows
             /\ \A h \in DOMAIN rows :
                    (\E i \in 1..Len(pending') : pending'[i] = rows[h].url) <=>
                        (rows[h].completed = 0 /\ is_valid(rows[h].url))
             /\ \A i, j \in 1..Len(pending') : pending'[i] = pending'[j] => i = j]_vars
    /\ [][(proc = "up" /\ ~restart) =>
             \A w \in Workers :
                 (wurl'[w] # wurl[w] /\ wurl'[w] # EmptyUrl) =>
                     rows[get_urlhash(wurl'[w])].completed = 0]_vars

\* a second run, started without restart after a crash: a row is completed
\* and its URL is not pending, and a URL that passes is_valid and was not
\* completed, which no run that ended by itself leaves behind, is pending
\* again and has been handed to a worker
C33_Witness ==
    /\ proc = "up" /\ ~restart /\ had_file /\ runs = 2
    /\ \E h \in DOMAIN rows :
          rows[h].completed = 1 /\ rows[h].url \notin Range(pending)
    /\ \E w \in Workers :
          /\ wurl[w] # EmptyUrl
          /\ rows[get_urlhash(wurl[w])].completed = 0
          /\ Cardinality(DOMAIN rows) >= 3

\* a thread between its record_url and the end of its scrape
AfterRecordUrl(t) == tpc[t] \in {"heuristics", "lowinfo", "is_duplicate", "record_words"}

\* how often w occurs in the token streams whose digests are in exact
Registered(exact, w) ==
    LET RECURSIVE Sum(_)
        Sum(S) == IF S = {} THEN 0
                  ELSE LET d == CHOOSE x \in S : TRUE
                       IN  Cardinality({i \in 1..Len(d[2]) : d[2][i] = w})
                               + Sum(S \ {d})
    IN  Sum(exact)

\* C34: under every interleaving of the scrape calls of two threads, no two
\* threads are told is_new for the same defragmented URL, and no two are
\* told "not duplicate" for the same token stream: record_url returns true
\* only in the step that inserts the hash, is_duplicate_text returns false
\* only in the step that registers the digest, and while the process runs
\* no hash and no digest is taken out again.  The word counts and the
\* longest page change only in the record_words of a thread that was told
\* both, by the counts of its token stream, so that no word is counted more
\* often than it occurs in the registered token streams, each taken once
C34_Atomic ==
    /\ [](\A t, u \in Threads :
             (t # u /\ AfterRecordUrl(t) /\ AfterRecordUrl(u) /\ tnew[t] /\ tnew[u]) =>
                 page_url(tpage[t]) # page_url(tpage[u]))
    /\ [](\A t, u \in Threads :
             (t # u /\ tpc[t] = "record_words" /\ tpc[u] = "record_words") =>
                 tokenize(tpage[t].text) # tokenize(tpage[u].text))
    /\ [][\A t \in Threads :
             (RecordUrl(t) /\ tnew'[t]) =>
                 /\ seen_key(page_url(tpage[t])) \notin engine.unique
                 /\ seen_key(page_url(tpage[t])) \in engine'.unique]_vars
    /\ [][\A t \in Threads :
             (IsDuplicateText(t) /\ tpc'[t] = "record_words") =>
                 /\ sha256(tokenize(tpage[t].text)) \notin engine.exact
                 /\ sha256(tokenize(tpage[t].text)) \in engine'.exact]_vars
    /\ [][(aproc = "up" /\ aproc' = "up") =>
             /\ engine.unique \subseteq engine'.unique
             /\ engine.exact \subseteq engine'.exact]_vars
    /\ [][(aproc = "up" /\ aproc' = "up"
              /\ (engine'.word_freq # engine.word_freq
                     \/ engine'.longest # engine.longest)) =>
             \E t \in Threads :
                 LET words == tokenize(tpage[t].text)
                 IN  /\ RecordWords(t) /\ tnew[t]
                     /\ seen_key(page_url(tpage[t])) \in engine.unique
                     /\ sha256(words) \in engine.exact
                     /\ engine'.word_freq = CounterUpdate(engine.word_freq, words)]_vars
    /\ [](\A w \in DOMAIN engine.word_freq :
             engine.word_freq[w] <= Registered(engine.exact, w))

\* two scrapes of the same 100-word text under way at once: one thread was
\* told "not duplicate" and has not counted its words yet, the other was
\* told is_new for its own URL, found the digest registered and returned
C34_Witness ==
    \E t, u \in Threads :
        /\ t # u
        /\ tpage[t] = PageA /\ tpc[t] = "record_words" /\ tnew[t]
        /\ tpage[u] = PageB /\ tnew[u] /\ tres[u] = Result({})
        /\ engine.exact = {sha256(tokenize(Text100))}
        /\ engine.dup_exact = 1
        /\ engine.word_freq = <<>>

====
